---- MODULE Spec2Model ----
(***************************************************************************)
(* A model of vcr-proxy: the request matcher (matching.py), the cassette   *)
(* store (storage.py), the route-config manager (route_config.py) and the  *)
(* three-mode dispatcher ProxyHandler (proxy.py), with the admin API       *)
(* (admin.py) acting on the same handler.                                  *)
(*                                                                         *)
(* Representation of Python values:                                        *)
(*   - Optional[T]   : <<>> is None, <<x>> is the value x;                 *)
(*   - dict          : a sequence of <<key, value>> pairs with distinct    *)
(*                     keys, in insertion order;                           *)
(*   - str / bytes   : a sequence of tokens (one-token strings).  A token  *)
(*                     is an ASCII character, a byte that is invalid in    *)
(*                     UTF-8 ("xFF"), one of the three bytes of the UTF-8  *)
(*                     encoding of U+FFFD ("xEF","xBF","xBD"), the code    *)
(*                     point U+FFFD ("uFFFD"), or, inside a JSON text, a   *)
(*                     whole lexeme (a brace, a key, a value);             *)
(*   - header names and values, methods, content types: atomic strings;   *)
(*   - a path: a sequence of one-character strings.                        *)
(***************************************************************************)
EXTENDS Integers, Sequences, FiniteSets, TLC

\* ------------------------------------------------------------ Python values

None == <<>>

Some(x) == <<x>>

IsNone(o) == Len(o) = 0

The(o) == o[1]

\* Code-point order of the atomic strings the model uses (Python's sorted()).
StrOrder ==
    << "0", "1", "2", "Authorization", "Content-Type", "Date", "[REDACTED]",
       "a", "accept", "action", "application/json", "application/octet-stream",
       "authorization", "b", "c", "content-type", "date", "delete", "go", "login",
       "other", "page", "q", "set-cookie", "sid=1", "text/plain", "tokA", "tokB",
       "x", "z" >>

RankOf == [s \in {StrOrder[i] : i \in DOMAIN StrOrder} |->
              CHOOSE i \in DOMAIN StrOrder : StrOrder[i] = s]

Rank(s) == RankOf[s]

StrLess(a, b) == Rank(a) < Rank(b)

\* str.lower() on the atomic strings of the model.
Lower(s) ==
    CASE s = "Authorization" -> "authorization"
      [] s = "Content-Type" -> "content-type"
      [] s = "Date" -> "date"
      [] OTHER -> s

\* str.upper() on methods.
Upper(s) ==
    CASE s = "get" -> "GET"
      [] s = "post" -> "POST"
      [] OTHER -> s

\* str.lower() on one character of a path.
LowerChar(c) ==
    CASE c = "A" -> "a"
      [] c = "L" -> "l"
      [] OTHER -> c

\* ------------------------------------------------------------------- dicts

Keys(d) == {d[i][1] : i \in DOMAIN d}

HasKey(d, k) == \E i \in DOMAIN d : d[i][1] = k

\* dict.get(k): None when absent.
DictGet(d, k) ==
    IF HasKey(d, k) THEN Some(d[CHOOSE i \in DOMAIN d : d[i][1] = k][2]) ELSE None

\* d[k] = v: in place when the key exists, appended otherwise.
DictPut(d, k, v) ==
    IF HasKey(d, k)
    THEN [i \in DOMAIN d |-> IF d[i][1] = k THEN <<k, v>> ELSE d[i]]
    ELSE Append(d, <<k, v>>)

\* dict.pop(k, None)
DictPop(d, k) == SelectSeq(d, LAMBDA p : p[1] # k)

RECURSIVE DictFromPairs(_)
\* dict(pairs): a later pair with the same key replaces the value.
DictFromPairs(pairs) ==
    IF pairs = <<>> THEN <<>>
    ELSE LET n == Len(pairs)
         IN  DictPut(DictFromPairs(SubSeq(pairs, 1, n - 1)), pairs[n][1], pairs[n][2])

\* {k.lower(): v for k, v in d.items()}
LowerKeys(d) == DictFromPairs([i \in DOMAIN d |-> <<Lower(d[i][1]), d[i][2]>>])

RECURSIVE InsertPair(_, _)
InsertPair(p, s) ==
    IF s = <<>> THEN <<p>>
    ELSE IF StrLess(p[1], s[1][1]) THEN <<p>> \o s
    ELSE <<s[1]>> \o InsertPair(p, Tail(s))

RECURSIVE SortPairs(_)
\* sorted(d.items()): keys are distinct, so the key decides.
SortPairs(d) ==
    IF d = <<>> THEN <<>> ELSE InsertPair(d[1], SortPairs(Tail(d)))

RECURSIVE InsertStr(_, _)
InsertStr(x, s) ==
    IF s = <<>> THEN <<x>>
    ELSE IF StrLess(s[1], x) THEN <<s[1]>> \o InsertStr(x, Tail(s))
    ELSE <<x>> \o s

RECURSIVE SortStrs(_)
\* sorted(list of str)
SortStrs(s) ==
    IF s = <<>> THEN <<>> ELSE InsertStr(s[1], SortStrs(Tail(s)))

RECURSIVE SetToSortedSeq(_)
\* sorted(set of str)
SetToSortedSeq(S) ==
    IF S = {} THEN <<>>
    ELSE LET m == CHOOSE x \in S : \A y \in S : ~StrLess(y, x)
         IN  <<m>> \o SetToSortedSeq(S \ {m})

SeqToSet(s) == {s[i] : i \in DOMAIN s}

\* ------------------------------------------------------------ text and bytes

\* bytes.decode("utf-8", errors="replace"): ASCII tokens are kept, the bytes
\* EF BF BD decode to U+FFFD, every other non-ASCII byte of the model is
\* invalid where it stands and is replaced by U+FFFD.
IsHighByte(t) == t \in {"xFF", "xEF", "xBF", "xBD"}

RECURSIVE Utf8Decode(_)
Utf8Decode(bs) ==
    IF bs = <<>> THEN <<>>
    ELSE IF Len(bs) >= 3 /\ bs[1] = "xEF" /\ bs[2] = "xBF" /\ bs[3] = "xBD"
         THEN <<"uFFFD">> \o Utf8Decode(SubSeq(bs, 4, Len(bs)))
    ELSE IF IsHighByte(bs[1]) THEN <<"uFFFD">> \o Utf8Decode(Tail(bs))
    ELSE <<bs[1]>> \o Utf8Decode(Tail(bs))

RECURSIVE Utf8Encode(_)
\* str.encode("utf-8")
Utf8Encode(s) ==
    IF s = <<>> THEN <<>>
    ELSE IF s[1] = "uFFFD" THEN <<"xEF", "xBF", "xBD">> \o Utf8Encode(Tail(s))
    ELSE <<s[1]>> \o Utf8Encode(Tail(s))

\* The byte tokens a body is made of.
ByteAlphabet == {"a", "b", "{", "}", "xFF", "xEF", "xBF", "xBD"}

\* base64 is modelled byte by byte: an injective renaming of the bytes into
\* ASCII tokens, and its inverse.
B64Token(b) == "b64_" \o b

B64Byte(t) == CHOOSE b \in ByteAlphabet : B64Token(b) = t

\* base64.b64encode(b).decode("ascii")
B64Encode(bs) == [i \in DOMAIN bs |-> B64Token(bs[i])]

\* base64.b64decode(s)
B64Decode(s) == [i \in DOMAIN s |-> B64Byte(s[i])]

\* A JSON object text is the token sequence  { k1 v1 k2 v2 ... } .
IsJsonObjectText(t) ==
    /\ Len(t) >= 2
    /\ t[1] = "{"
    /\ t[Len(t)] = "}"
    /\ (Len(t) - 2) % 2 = 0
    /\ \A i \in 2..(Len(t) - 1) : t[i] \notin {"{", "}"}

\* json.loads(text): None stands for JSONDecodeError.  Duplicate keys: the
\* last one wins, as in Python.
JsonLoads(t) ==
    IF IsJsonObjectText(t)
    THEN Some(DictFromPairs([i \in 1..((Len(t) - 2) \div 2) |-> <<t[2 * i], t[2 * i + 1]>>]))
    ELSE None

RECURSIVE FlattenPairs(_)
FlattenPairs(d) ==
    IF d = <<>> THEN <<>> ELSE <<d[1][1], d[1][2]>> \o FlattenPairs(Tail(d))

\* json.dumps(obj, sort_keys=True, separators=(",", ":"))
JsonDumpsSorted(d) == <<"{">> \o FlattenPairs(SortPairs(d)) \o <<"}">>

\* A query string or form body is the token sequence  k1 = v1 & k2 = v2 ... .
IsFormText(t) ==
    /\ Len(t) % 4 = 3
    /\ \A i \in DOMAIN t :
          /\ (i % 4 = 2) => t[i] = "="
          /\ (i % 4 = 0) => t[i] = "&"
          /\ (i % 2 = 1) => t[i] \notin {"=", "&"}

FormPairs(t) ==
    IF IsFormText(t)
    THEN [i \in 1..((Len(t) + 1) \div 4) |-> <<t[4 * i - 3], t[4 * i - 1]>>]
    ELSE <<>>

RECURSIVE GroupPairs(_)
\* The dict name -> list of values of a sequence of (name, value) pairs.
GroupPairs(pairs) ==
    IF pairs = <<>> THEN <<>>
    ELSE LET n == Len(pairs)
             d == GroupPairs(SubSeq(pairs, 1, n - 1))
             k == pairs[n][1]
             old == DictGet(d, k)
         IN  DictPut(d, k, IF IsNone(old) THEN <<pairs[n][2]>>
                           ELSE Append(The(old), pairs[n][2]))

\* urllib.parse.parse_qs(text, keep_blank_values=True)
parse_qs(t) == GroupPairs(FormPairs(t))

RECURSIVE ExpandValues(_, _)
ExpandValues(k, vs) ==
    IF vs = <<>> THEN <<>> ELSE <<<<k, vs[1]>>>> \o ExpandValues(k, Tail(vs))

RECURSIVE ExpandItems(_)
ExpandItems(items) ==
    IF items = <<>> THEN <<>>
    ELSE ExpandValues(items[1][1], items[1][2]) \o ExpandItems(Tail(items))

RECURSIVE JoinForm(_)
JoinForm(pairs) ==
    IF pairs = <<>> THEN <<>>
    ELSE IF Len(pairs) = 1 THEN <<pairs[1][1], "=", pairs[1][2]>>
    ELSE <<pairs[1][1], "=", pairs[1][2], "&">> \o JoinForm(Tail(pairs))

\* urllib.parse.urlencode(items, doseq=True)
urlencode(items) == JoinForm(ExpandItems(items))

\* ------------------------------------------------------------------- paths

StartsWith(p, q) == Len(q) <= Len(p) /\ SubSeq(p, 1, Len(q)) = q

RECURSIVE RStrip(_, _)
\* str.rstrip(c)
RStrip(p, c) ==
    IF p # <<>> /\ p[Len(p)] = c THEN RStrip(SubSeq(p, 1, Len(p) - 1), c) ELSE p

RECURSIVE LStrip(_, _)
LStrip(p, c) == IF p # <<>> /\ p[1] = c THEN LStrip(Tail(p), c) ELSE p

\* str.strip(c)
Strip(p, c) == LStrip(RStrip(p, c), c)

\* str.replace(a, b) for single characters
Replace(p, a, b) == [i \in DOMAIN p |-> IF p[i] = a THEN b ELSE p[i]]

\* The characters [a-zA-Z0-9_\-] among those the model's paths are made of.
SlugSafe(c) == c \in {"a", "l", "u", "x", "A", "L", "_", "-"}

\* needle in content_type, for the content types and needles of the model.
InStr(needle, ct) ==
    \/ needle = ct
    \/ needle = "text/" /\ ct = "text/plain"

\* --------------------------------------------------------------- matching.py


\* A _normalize_query that sorts the names and leaves the values of a name in
\* the order of the query string.
_normalize_query_KeepsValueOrder(query) ==
    IF query = <<>> THEN None
    ELSE Some(urlencode(SortPairs(query)))

\* _normalize_query
_normalize_query(query) ==
    IF query = <<>> THEN None
    ELSE Some(urlencode(SortPairs([i \in DOMAIN query |->
                                      <<query[i][1], SortStrs(query[i][2])>>])))

\* _normalize_headers: ignore_headers is a set (taken as configured),
\* route_ignore a list whose entries are lowercased.
_normalize_headers(headers, ignore_headers, route_ignore) ==
    LET ignored == ignore_headers \cup {Lower(h) : h \in SeqToSet(route_ignore)}
        kept == SelectSeq(headers, LAMBDA p : Lower(p[1]) \notin ignored)
        filtered == LowerKeys(kept)
    IN  IF filtered = <<>> THEN None ELSE Some(JoinForm(SortPairs(filtered)))

\* _normalize_form_body
_normalize_form_body(body) == urlencode(SortPairs(parse_qs(body)))

RECURSIVE PopAll(_, _)
\* for field in ignore_body_fields: parsed.pop(field, None)
PopAll(d, fields) ==
    IF fields = <<>> THEN d ELSE PopAll(DictPop(d, fields[1]), Tail(fields))


\* A _normalize_body that dumps the parsed JSON object with its keys in the
\* order of the body.
_normalize_body_Unsorted(body, content_type, ignore_body_fields) ==
    IF IsNone(body) THEN None
    ELSE IF ~IsNone(content_type) /\ InStr("application/json", The(content_type))
    THEN LET parsed == JsonLoads(The(body))
         IN  IF IsNone(parsed) THEN body
             ELSE Some(<<"{">> \o FlattenPairs(PopAll(The(parsed), ignore_body_fields))
                           \o <<"}">>)
    ELSE IF ~IsNone(content_type)
            /\ InStr("application/x-www-form-urlencoded", The(content_type))
    THEN Some(_normalize_form_body(The(body)))
    ELSE body

\* _normalize_body: body and content_type are optional, ignore_body_fields
\* is a list (empty for None).
_normalize_body(body, content_type, ignore_body_fields) ==
    IF IsNone(body) THEN None
    ELSE IF ~IsNone(content_type) /\ InStr("application/json", The(content_type))
    THEN LET parsed == JsonLoads(The(body))
         IN  IF IsNone(parsed) THEN body
             ELSE Some(JsonDumpsSorted(PopAll(The(parsed), ignore_body_fields)))
    ELSE IF ~IsNone(content_type)
            /\ InStr("application/x-www-form-urlencoded", The(content_type))
    THEN Some(_normalize_form_body(The(body)))
    ELSE body

\* request.path.lower().rstrip("/") or "/"
KeyPath(path) ==
    LET p == RStrip([i \in DOMAIN path |-> LowerChar(path[i])], "/")
    IN  IF p = <<>> THEN <<"/">> ELSE p

\* compute_matching_key: route_ignore is an optional RouteIgnoreConfig.
compute_matching_key(request, ignore_headers, route_ignore) ==
    LET ignore_query == IF IsNone(route_ignore) THEN <<>> ELSE The(route_ignore).query_params
        filtered_query == SelectSeq(request.query,
                                    LAMBDA p : p[1] \notin SeqToSet(ignore_query))
    IN  [ method |-> Upper(request.method),
          path |-> KeyPath(request.path),
          query |-> _normalize_query(filtered_query),
          headers |-> _normalize_headers(request.headers, ignore_headers,
                         IF IsNone(route_ignore) THEN <<>> ELSE The(route_ignore).headers),
          body |-> _normalize_body(request.body, request.content_type,
                         IF IsNone(route_ignore) THEN <<>> ELSE The(route_ignore).body_fields) ]


\* A compute_hash that digests the key without its body.
compute_hash_NoBody(key) == <<key.method, key.path, key.query, None, key.headers>>

\* compute_hash: the first 8 hex digits of SHA-256 over the key's JSON dump
\* (fields in the order method, path, query, body, headers).  The digest is
\* modelled as a collision-free code of the dumped fields.
compute_hash(key) == <<key.method, key.path, key.query, key.body, key.headers>>

\* ---------------------------------------------------------------- storage.py

\* _path_to_slug
_path_to_slug(path) ==
    LET slug == Replace(Strip(path, "/"), "/", "_")
        safe == [i \in DOMAIN slug |-> IF SlugSafe(slug[i]) THEN slug[i] ELSE "_"]
    IN  IF safe = <<>> THEN <<"r", "o", "o", "t">> ELSE safe

\* CassetteStorage._cassette_filename: <METHOD>_<slug>_<hash>.json
_cassette_filename(matching_key) ==
    [ method |-> matching_key.method,
      slug |-> _path_to_slug(matching_key.path),
      hash |-> compute_hash(matching_key) ]

\* The directories of the store are tuples of names below cassettes_dir:
\* <<>> is cassettes_dir itself, <<d>> the directory of domain d.
_domain_dir(domain) == <<domain>>

\* mkdir(parents=True, exist_ok=True)
MkdirParents(ds, dir) == ds \cup {SubSeq(dir, 1, n) : n \in 0..Len(dir)}

\* Files are keyed by <<domain, filename>> and hold a text.
FilePath(domain, filename) == <<domain, filename>>

\* A model_dump_json that leaves out the response's body_encoding, which
\* model_validate_json then reads as its default.
model_dump_json_NoEncoding(cassette) ==
    << "{", "meta", cassette.meta, "request", cassette.request,
       "response", [cassette.response EXCEPT !.body_encoding = "utf-8"], "}" >>

\* Cassette.model_dump_json: the text is the token sequence
\*   { meta <meta> request <request> response <response> }
\* with each section as one token.
model_dump_json(cassette) ==
    << "{", "meta", cassette.meta, "request", cassette.request,
       "response", cassette.response, "}" >>

\* A text that Cassette.model_validate_json accepts.
IsCassetteText(text) ==
    /\ Len(text) = 8
    /\ text[1] = "{"
    /\ text[2] = "meta"
    /\ text[4] = "request"
    /\ text[6] = "response"
    /\ text[8] = "}"

\* Cassette.model_validate_json: None stands for ValidationError.
model_validate_json(text) ==
    IF IsCassetteText(text)
    THEN Some([meta |-> text[3], request |-> text[5], response |-> text[7]])
    ELSE None

\* Path.write_text: the file is truncated and written within the call.

\* A write_text that is not one write: over a file whose text is as long,
\* the tail of the old text survives behind the head of the new one.
write_text_Interleaved(fs, filepath, text) ==
    IF filepath \in DOMAIN fs /\ Len(fs[filepath]) = Len(text)
    THEN (filepath :> (SubSeq(text, 1, 6) \o SubSeq(fs[filepath], 7, Len(text)))) @@ fs
    ELSE (filepath :> text) @@ fs

write_text(fs, filepath, text) == (filepath :> text) @@ fs

\* CassetteStorage.save: the files after the call.
\* A save that leaves an existing file of the key as it is.
SaveFiles_KeepsFirst(fs, cassette, matching_key) ==
    LET filepath == FilePath(cassette.meta.domain, _cassette_filename(matching_key))
    IN  IF filepath \in DOMAIN fs THEN fs
        ELSE write_text(fs, filepath, model_dump_json(cassette))

SaveFiles(fs, cassette, matching_key) ==
    LET filepath == FilePath(cassette.meta.domain, _cassette_filename(matching_key))
    IN  write_text(fs, filepath, model_dump_json(cassette))

\* CassetteStorage.save: the directories after the call.
SaveDirs(ds, cassette) == MkdirParents(ds, _domain_dir(cassette.meta.domain))

\* CassetteStorage.lookup: [raised, value]; raised when the file's text does
\* not validate as a Cassette.
lookup(fs, ds, domain, matching_key) ==
    LET filepath == FilePath(domain, _cassette_filename(matching_key))
    IN  IF _domain_dir(domain) \notin ds THEN [raised |-> FALSE, value |-> None]
        ELSE IF filepath \notin DOMAIN fs THEN [raised |-> FALSE, value |-> None]
        ELSE IF IsNone(model_validate_json(fs[filepath]))
        THEN [raised |-> TRUE, value |-> None]
        ELSE [raised |-> FALSE, value |-> model_validate_json(fs[filepath])]

\* CassetteStorage.list_cassettes, as the set of file paths
list_cassettes(fs, ds, domain) ==
    IF _domain_dir(domain) \notin ds THEN {}
    ELSE {f \in DOMAIN fs : f[1] = domain}

\* CassetteStorage.list_all, as the set of file paths
list_all(fs, ds) == IF <<>> \notin ds THEN {} ELSE DOMAIN fs

\* Path.unlink for a set of files
Unlink(fs, gone) == [f \in (DOMAIN fs) \ gone |-> fs[f]]

\* A delete that unlinks with missing_ok and returns true whatever it found.
delete_AlwaysTrue(fs, domain, cassette_id) ==
    [files |-> Unlink(fs, {FilePath(domain, cassette_id)}), result |-> TRUE]

\* CassetteStorage.delete: the files after the call and what it returns.
\* cassette_id is the filename without its extension.
delete(fs, domain, cassette_id) ==
    LET filepath == FilePath(domain, cassette_id)
    IN  IF filepath \in DOMAIN fs
        THEN [files |-> Unlink(fs, {filepath}), result |-> TRUE]
        ELSE [files |-> fs, result |-> FALSE]

\* A delete_domain that globs recursively from cassettes_dir.
delete_domain_Recursive(fs, ds, domain) ==
    IF _domain_dir(domain) \notin ds THEN [files |-> fs, result |-> 0]
    ELSE [files |-> Unlink(fs, DOMAIN fs), result |-> Cardinality(DOMAIN fs)]

\* CassetteStorage.delete_domain: the files after the call and the count.
delete_domain(fs, ds, domain) ==
    IF _domain_dir(domain) \notin ds THEN [files |-> fs, result |-> 0]
    ELSE LET globbed == {f \in DOMAIN fs : f[1] = domain}
         IN  [files |-> Unlink(fs, globbed), result |-> Cardinality(globbed)]

\* CassetteStorage.delete_all: the files after the call and the count.
delete_all(fs, ds) ==
    LET listed == list_all(fs, ds)
    IN  [files |-> Unlink(fs, listed), result |-> Cardinality(listed)]

\* ----------------------------------------------------------- route_config.py

\* _extract_body_fields
_extract_body_fields(body, content_type) ==
    IF IsNone(body) \/ IsNone(content_type) THEN <<>>
    ELSE IF InStr("application/json", The(content_type)) /\ ~IsNone(JsonLoads(The(body)))
    THEN SetToSortedSeq(Keys(The(JsonLoads(The(body)))))
    ELSE IF InStr("application/x-www-form-urlencoded", The(content_type))
    THEN SetToSortedSeq(Keys(parse_qs(The(body))))
    ELSE <<>>

\* RouteConfigManager._config_path: _routes/<domain>/<METHOD>_<slug>.yaml
_config_path(domain, method, path) ==
    LET stripped == Replace(Strip(path, "/"), "/", "_")
        slug == IF stripped = <<>> THEN <<"r", "o", "o", "t">> ELSE stripped
    IN  <<domain, Upper(method), slug>>

\* RouteIgnoreConfig()
EmptyIgnore == [headers |-> <<>>, body_fields |-> <<>>, query_params |-> <<>>]

\* RouteConfigManager.load: None when the file is absent.
load(rts, domain, method, path) ==
    LET config_path == _config_path(domain, method, path)
    IN  IF config_path \notin DOMAIN rts THEN None ELSE rts[config_path]

\* An auto_generate that rewrites an existing file from the request alone.
auto_generate_Overwrites(rts, domain, request) ==
    LET config_path == _config_path(domain, request.method, request.path)
        override == [ route |-> [method |-> Upper(request.method), path |-> request.path],
                      matched |-> [ query_params |-> SetToSortedSeq(Keys(request.query)),
                                    headers |-> SortStrs([i \in DOMAIN request.headers |->
                                                    Lower(request.headers[i][1])]),
                                    body_fields |-> _extract_body_fields(request.body,
                                                        request.content_type) ],
                      ignore |-> EmptyIgnore ]
    IN  (config_path :> Some(override)) @@ rts

\* RouteConfigManager.auto_generate: the route files after the call.
auto_generate(rts, domain, request) ==
    LET config_path == _config_path(domain, request.method, request.path)
        body_fields == _extract_body_fields(request.body, request.content_type)
        query_params == SetToSortedSeq(Keys(request.query))
        headers == SortStrs([i \in DOMAIN request.headers |-> Lower(request.headers[i][1])])
        existing == load(rts, domain, request.method, request.path)
        merged == [ The(existing) EXCEPT
                      !.matched = [ body_fields |-> SetToSortedSeq(
                                        SeqToSet(@.body_fields) \cup SeqToSet(body_fields)),
                                    query_params |-> SetToSortedSeq(
                                        SeqToSet(@.query_params) \cup SeqToSet(query_params)),
                                    headers |-> SetToSortedSeq(
                                        SeqToSet(@.headers) \cup SeqToSet(headers)) ] ]
        override == [ route |-> [method |-> Upper(request.method), path |-> request.path],
                      matched |-> [ query_params |-> query_params,
                                    headers |-> headers,
                                    body_fields |-> body_fields ],
                      ignore |-> EmptyIgnore ]
    IN  IF config_path \in DOMAIN rts
        THEN (config_path :> Some(merged)) @@ rts
        ELSE (config_path :> Some(override)) @@ rts

\* config_path.parent.mkdir(parents=True, exist_ok=True) in auto_generate
RouteDirs(ds, domain) == MkdirParents(ds, <<"_routes", domain>>)

\* ------------------------------------------------------------------ proxy.py

RECURSIVE InsertByLen(_, _)
InsertByLen(t, s) ==
    IF s = <<>> THEN <<t>>
    ELSE IF Len(t[1]) > Len(s[1][1]) THEN <<t>> \o s
    ELSE <<s[1]>> \o InsertByLen(t, Tail(s))

RECURSIVE SortByLenDesc(_)
\* sorted(targets.items(), key=lambda x: -len(x[0])): stable
SortByLenDesc(ts) ==
    IF ts = <<>> THEN <<>>
    ELSE LET n == Len(ts)
         IN  InsertByLen(ts[n], SortByLenDesc(SubSeq(ts, 1, n - 1)))

\* The test of one prefix in _resolve_target
PrefixMatches(path, prefix) ==
    \/ path = prefix
    \/ StartsWith(path, prefix \o <<"/">>)
    \/ prefix = <<"/">>

\* target_url.split("://", 1)[-1].rstrip("/"): a URL is held as its scheme,
\* its host and its trailing slashes.
DomainOf(target_url) == target_url.host

RECURSIVE FirstMatch(_, _)
FirstMatch(path, ts) ==
    IF ts = <<>> THEN None
    ELSE IF PrefixMatches(path, ts[1][1])
    THEN LET prefix == ts[1][1]
             rest == IF prefix # <<"/">> THEN SubSeq(path, Len(prefix) + 1, Len(path))
                     ELSE path
         IN  Some([ target_url |-> ts[1][2],
                    domain |-> DomainOf(ts[1][2]),
                    remaining |-> IF rest = <<>> THEN <<"/">> ELSE rest ])
    ELSE FirstMatch(path, Tail(ts))


\* A _resolve_target that tries the prefixes in the order of the map.
_resolve_target_FirstConfigured(path, targets) == FirstMatch(path, targets)

\* _resolve_target
_resolve_target(path, targets) == FirstMatch(path, SortByLenDesc(targets))

\* _is_text_content
_is_text_content(content_type) ==
    \/ IsNone(content_type)
    \/ \E t \in {"application/json", "text/", "application/xml",
                 "application/x-www-form-urlencoded"} : InStr(t, The(content_type))

\* _build_recorded_request (proxy.py)
_build_recorded_request(method, path, query_string, headers, body) ==
    LET content_type == DictGet(headers, "content-type")
        truthy == ~IsNone(body) /\ The(body) # <<>>
        text == truthy /\ _is_text_content(content_type)
    IN  [ method |-> Upper(method),
          path |-> path,
          query |-> IF query_string # <<>> THEN parse_qs(query_string) ELSE <<>>,
          headers |-> LowerKeys(headers),
          body |-> IF text THEN Some(Utf8Decode(The(body)))
                   ELSE IF truthy THEN Some(B64Encode(The(body)))
                   ELSE None,
          body_encoding |-> IF truthy /\ ~text THEN "base64" ELSE "utf-8",
          content_type |-> content_type ]

\* A _build_recorded_response that stores response.text whatever the content
\* type is.
_build_recorded_response_AlwaysText(response) ==
    [ status_code |-> response.status_code,
      headers |-> LowerKeys(response.headers),
      body |-> Some(Utf8Decode(response.content)),
      body_encoding |-> "utf-8" ]

\* _build_recorded_response: response.headers is case-insensitive and
\* dict(response.headers) has lowercased names; response.text decodes with
\* replacement.
_build_recorded_response(response) ==
    LET hdrs == LowerKeys(response.headers)
        content_type == DictGet(hdrs, "content-type")
        text == _is_text_content(content_type)
    IN  [ status_code |-> response.status_code,
          headers |-> hdrs,
          body |-> IF text THEN Some(Utf8Decode(response.content))
                   ELSE Some(B64Encode(response.content)),
          body_encoding |-> IF text THEN "utf-8" ELSE "base64" ]

\* A _decode_body that encodes every body as UTF-8, base64 text included.
_decode_body_NoBase64(response) ==
    IF IsNone(response.body) THEN <<>>
    ELSE Utf8Encode(The(response.body))

\* ProxyHandler._decode_body
_decode_body(response) ==
    IF IsNone(response.body) THEN <<>>
    ELSE IF response.body_encoding = "base64" THEN B64Decode(The(response.body))
    ELSE Utf8Encode(The(response.body))

\* The JSON error bodies of handle: {"error": msg} with its content type.
ErrorResult(status, msg) ==
    [ status |-> status,
      headers |-> <<<<"content-type", "application/json">>>>,
      body |-> <<"{", "error", msg, "}">> ]

\* ------------------------------------------------------------ configuration

\* Bounds of the model: calls of handle, and calls suspended on the upstream.
MaxRequests == 2

MaxInflight == 2

Modes == {"record", "replay", "spy"}

\* Settings.always_ignore_headers (ALWAYS_IGNORED_HEADERS_DEFAULT)
AlwaysIgnoreHeaders == {"date", "x-request-id", "x-trace-id", "traceparent", "tracestate"}

\* The headers the specification calls sensitive (its sensitive_headers
\* option); config.py defines no such setting and the dispatcher reads none.
SensitiveHeaders == {"authorization", "cookie", "set-cookie"}

\* recording.REDACTED
REDACTED == "[REDACTED]"

\* Settings.targets: the prefix /a is served by http://t/ .
TargetT == [scheme |-> "http", host |-> "t", trailing |-> "/"]

Targets == << <<(<<"/", "a">>), TargetT>> >>

\* --------------------------------------------------- the inputs of the model

LoginRequest(path, headers, body) ==
    [ method |-> "POST", path |-> path, query_string |-> <<>>,
      headers |-> headers, body |-> Some(body) ]

JsonCT == <<"content-type", "application/json">>

\* POST /a/l with a JSON body and an Authorization header.
ReqA == LoginRequest(<<"/", "a", "/", "l">>, <<JsonCT, <<"authorization", "tokA">>>>,
                     <<"{", "login", "x", "action", "go", "}">>)

\* ReqA with another Authorization value.
ReqOtherToken == LoginRequest(<<"/", "a", "/", "l">>, <<JsonCT, <<"authorization", "tokB">>>>,
                              <<"{", "login", "x", "action", "go", "}">>)

\* ReqA with another value of the body field login.
ReqOtherLogin == LoginRequest(<<"/", "a", "/", "l">>, <<JsonCT, <<"authorization", "tokA">>>>,
                              <<"{", "login", "z", "action", "go", "}">>)

\* ReqA with another value of the body field action.
ReqOtherAction == LoginRequest(<<"/", "a", "/", "l">>, <<JsonCT, <<"authorization", "tokA">>>>,
                               <<"{", "login", "x", "action", "other", "}">>)

\* ReqA written differently: trailing slash, upper-case path, a Date header,
\* the body's keys in another order.
ReqAVariant ==
    LoginRequest(<<"/", "a", "/", "L", "/">>,
                 <<<<"date", "x">>, JsonCT, <<"authorization", "tokA">>>>,
                 <<"{", "action", "go", "login", "x", "}">>)

\* GET /ax : no prefix of Targets matches.
ReqNoTarget ==
    [ method |-> "GET", path |-> <<"/", "a", "x">>, query_string |-> <<>>,
      headers |-> <<>>, body |-> None ]

\* ReqA with the keys of its body in the other order, and nothing else changed.
ReqAReordered == LoginRequest(<<"/", "a", "/", "l">>, <<JsonCT, <<"authorization", "tokA">>>>,
                              <<"{", "action", "go", "login", "x", "}">>)

\* The requests of Spec, and those of SpecRules (the route and header rules).
Requests == {ReqA, ReqAVariant, ReqNoTarget}

RuleRequests == {ReqA, ReqOtherToken, ReqOtherLogin, ReqOtherAction}

\* The requests of SpecKeys: one JSON object written in two orders, and the
\* same request with another value in its body.
KeyRequests == {ReqA, ReqAReordered, ReqOtherLogin}

\* What the upstream may answer: JSON with a Set-Cookie, a text error page
\* holding a byte that is not UTF-8, and a binary body.
UpJson ==
    [ status_code |-> 200,
      headers |-> <<JsonCT, <<"set-cookie", "sid=1">>>>,
      content |-> <<"{", "action", "go", "}">> ]

UpTextError ==
    [ status_code |-> 500,
      headers |-> <<<<"content-type", "text/plain">>>>,
      content |-> <<"a", "xFF">> ]

UpBinary ==
    [ status_code |-> 404,
      headers |-> <<<<"content-type", "application/octet-stream">>>>,
      content |-> <<"xFF", "b">> ]

Responses == {UpJson, UpTextError, UpBinary}

\* The outcome of forward_request: a response, httpx.TimeoutException or
\* httpx.ConnectError.
UpstreamOutcomes ==
    {[kind |-> "response", response |-> Some(u)] : u \in Responses}
        \cup {[kind |-> k, response |-> None] : k \in {"timeout", "connect_error"}}

\* The route override a user writes by hand before recording: POST /l on
\* domain t, ignoring the body field login.
UserOverride ==
    [ route |-> [method |-> "POST", path |-> <<"/", "l">>],
      matched |-> [query_params |-> <<>>, headers |-> <<>>, body_fields |-> <<>>],
      ignore |-> [headers |-> <<>>, body_fields |-> <<"login">>, query_params |-> <<>>] ]

\* ------------------------------------------------------------------- state

VARIABLES
    mode,            \* ProxyHandler.mode
    stats_total,     \* the five counters of ProxyHandler
    stats_hits,
    stats_misses,
    stats_recorded,
    stats_errors,
    files,           \* cassette files: <<domain, filename>> -> text
    dirs,            \* the directories that exist below cassettes_dir
    routes,          \* route-config files: <<domain, METHOD, slug>> -> text
    inflight,        \* calls of handle suspended in forward_request: id -> locals,
                     \* with the ignore rules the route's file held at the call
    last,            \* the last step of a call of handle and what it returned
    origin,          \* per cassette file written by handle and untouched since:
                     \* the mode and the request of the call, the route's
                     \* ignore rules at the call, and the upstream response
    taken,           \* how many calls of handle took each path so far: served
                     \* from a cassette, missed (and missed in REPLAY mode),
                     \* recorded, ended in an error, ended in an exception
    _pending_record  \* VCRAddon._pending_record: the ids of the flows a SPY miss
                     \* marked for recording

vars == << mode, stats_total, stats_hits, stats_misses, stats_recorded, stats_errors,
           files, dirs, routes, inflight, last, origin, taken, _pending_record >>

stats == <<stats_total, stats_hits, stats_misses, stats_recorded, stats_errors>>

store == <<files, dirs, routes>>

\* An entry of last.  result is what handle returned (None while it has not,
\* or when it raised), upstream the outcome of forward_request in this call.
Event(op, id, m, outcome, request, result, upstream) ==
    [ op |-> op, id |-> id, mode |-> m, outcome |-> outcome, request |-> request,
      result |-> result, upstream |-> upstream ]

\* What one synchronous stretch of handle did: the counters it incremented,
\* what it returned, and the locals it suspended with in forward_request.
Effect(outcome, hits, misses, errors, result, suspend) ==
    [ outcome |-> outcome, hits |-> hits, misses |-> misses, errors |-> errors,
      result |-> result, suspend |-> suspend ]

\* A handle that counts the request without target as a miss too.
NoTargetEffect_CountsMiss ==
    Effect("no_target", 0, 1, 1,
           Some(ErrorResult(502, "no target configured for path")), None)

\* A no-target answer that is not counted as an error.
NoTargetEffect_Uncounted ==
    Effect("no_target", 0, 0, 0,
           Some(ErrorResult(502, "no target configured for path")), None)

\* handle, lines 155-162: no prefix matches.
NoTargetEffect ==
    Effect("no_target", 0, 0, 1,
           Some(ErrorResult(502, "no target configured for path")), None)

\* The reply built from a cassette (the hit branch of _handle_replay and of
\* _handle_spy).
HitResult(cassette) ==
    [ status |-> cassette.response.status_code,
      headers |-> cassette.response.headers,
      body |-> _decode_body(cassette.response) ]

\* A _handle_replay that answers a miss with 404 without counting it.
_handle_replay_UncountedMiss(fs, ds, domain, matching_key) ==
    LET found == lookup(fs, ds, domain, matching_key)
    IN  IF found.raised THEN Effect("raised", 0, 0, 0, None, None)
        ELSE IF IsNone(found.value)
        THEN Effect("miss", 0, 0, 0,
                    Some(ErrorResult(404, "no matching cassette found")), None)
        ELSE Effect("hit", 1, 0, 0, Some(HitResult(The(found.value))), None)

\* ProxyHandler._handle_replay
_handle_replay(fs, ds, domain, matching_key) ==
    LET found == lookup(fs, ds, domain, matching_key)
    IN  IF found.raised THEN Effect("raised", 0, 0, 0, None, None)
        ELSE IF IsNone(found.value)
        THEN Effect("miss", 0, 1, 0,
                    Some(ErrorResult(404, "no matching cassette found")), None)
        ELSE Effect("hit", 1, 0, 0, Some(HitResult(The(found.value))), None)

\* ProxyHandler._handle_record up to its await of forward_request.
_handle_record_call(locals) == Effect("forward", 0, 0, 0, None, Some(locals))

\* A _handle_spy that forwards a miss without counting it.
_handle_spy_UncountedMiss(fs, ds, locals) ==
    LET found == lookup(fs, ds, locals.domain, locals.matching_key)
    IN  IF found.raised THEN Effect("raised", 0, 0, 0, None, None)
        ELSE IF ~IsNone(found.value)
        THEN Effect("hit", 1, 0, 0, Some(HitResult(The(found.value))), None)
        ELSE _handle_record_call(locals)

\* A _handle_spy that answers a hit without counting it.
_handle_spy_UncountedHit(fs, ds, locals) ==
    LET found == lookup(fs, ds, locals.domain, locals.matching_key)
    IN  IF found.raised THEN Effect("raised", 0, 0, 0, None, None)
        ELSE IF ~IsNone(found.value)
        THEN Effect("hit", 0, 0, 0, Some(HitResult(The(found.value))), None)
        ELSE [_handle_record_call(locals) EXCEPT !.misses = 1]

\* ProxyHandler._handle_spy up to the await in _handle_record.
_handle_spy(fs, ds, locals) ==
    LET found == lookup(fs, ds, locals.domain, locals.matching_key)
    IN  IF found.raised THEN Effect("raised", 0, 0, 0, None, None)
        ELSE IF ~IsNone(found.value)
        THEN Effect("hit", 1, 0, 0, Some(HitResult(The(found.value))), None)
        ELSE [_handle_record_call(locals) EXCEPT !.misses = 1]

\* handle, lines 164-170: the key is computed from the always-ignored
\* headers alone; no route config is loaded.
HandleKey(recorded_req) == compute_matching_key(recorded_req, AlwaysIgnoreHeaders, None)

\* The locals of handle before its dispatch on the mode, lines 155-170:
\* None when no prefix matches.
HandleLocals(r) ==
    LET resolved == _resolve_target(r.path, Targets)
    IN  IF IsNone(resolved) THEN None
        ELSE LET t == The(resolved)
                 recorded_req == _build_recorded_request(r.method, t.remaining,
                                     r.query_string, r.headers, r.body)
             IN  Some([ request |-> r, target_url |-> t.target_url,
                        domain |-> t.domain, path |-> t.remaining,
                        recorded_req |-> recorded_req,
                        matching_key |-> HandleKey(recorded_req) ])

\* HandleLocals, tabulated over the requests of the model.
LocalsOf == [r \in Requests \cup RuleRequests \cup KeyRequests |-> HandleLocals(r)]

\* A handle whose REPLAY branch falls through to the SPY branch, forwarding
\* on a miss.
handle_ReplayAsSpy(r, m, fs, ds) ==
    IF IsNone(LocalsOf[r]) THEN NoTargetEffect
    ELSE LET locals == [mode |-> m] @@ The(LocalsOf[r])
         IN  IF m = "record" THEN _handle_record_call(locals)
             ELSE _handle_spy(fs, ds, locals)

\* ProxyHandler.handle after stats_total += 1, up to its return or to the
\* await of forward_request.  m is self.mode.
handle(r, m, fs, ds) ==
    IF IsNone(LocalsOf[r]) THEN NoTargetEffect
    ELSE LET locals == [mode |-> m] @@ The(LocalsOf[r])
         IN  IF m = "record" THEN _handle_record_call(locals)
             ELSE IF m = "replay"
             THEN _handle_replay(fs, ds, locals.domain, locals.matching_key)
             ELSE _handle_spy(fs, ds, locals)

\* The cassette _handle_record builds, lines 229-239 (recorded_at, the time
\* of the call, is left out).
BuildCassette(locals, response) ==
    [ meta |-> [ target |-> locals.target_url, domain |-> locals.domain,
                 vcr_proxy_version |-> "1.0.0" ],
      request |-> locals.recorded_req,
      response |-> _build_recorded_response(response) ]

\* What _handle_record returns after a response, lines 244-246.
LiveResult(response) ==
    [ status |-> response.status_code,
      headers |-> LowerKeys(response.headers),
      body |-> response.content ]

\* A _handle_record that saves the cassette without calling auto_generate.
_handle_record_NoRouteConfig(locals, o, fs, ds, rts) ==
    IF o.kind = "timeout"
    THEN [ outcome |-> "timeout", errors |-> 1, recorded |-> 0,
           result |-> Some(ErrorResult(504, "target timeout")),
           files |-> fs, dirs |-> ds, routes |-> rts ]
    ELSE IF o.kind = "connect_error"
    THEN [ outcome |-> "unreachable", errors |-> 1, recorded |-> 0,
           result |-> Some(ErrorResult(502, "target unreachable")),
           files |-> fs, dirs |-> ds, routes |-> rts ]
    ELSE LET cassette == BuildCassette(locals, The(o.response))
         IN  [ outcome |-> "recorded", errors |-> 0, recorded |-> 1,
               result |-> Some(LiveResult(The(o.response))),
               files |-> SaveFiles(fs, cassette, locals.matching_key),
               dirs |-> SaveDirs(ds, cassette),
               routes |-> rts ]

\* A _handle_record that catches the timeout with the connection failure and
\* answers both with 502.
_handle_record_TimeoutAs502(locals, o, fs, ds, rts) ==
    IF o.kind \in {"timeout", "connect_error"}
    THEN [ outcome |-> "unreachable", errors |-> 1, recorded |-> 0,
           result |-> Some(ErrorResult(502, "target unreachable")),
           files |-> fs, dirs |-> ds, routes |-> rts ]
    ELSE LET cassette == BuildCassette(locals, The(o.response))
         IN  [ outcome |-> "recorded", errors |-> 0, recorded |-> 1,
               result |-> Some(LiveResult(The(o.response))),
               files |-> SaveFiles(fs, cassette, locals.matching_key),
               dirs |-> RouteDirs(SaveDirs(ds, cassette), locals.domain),
               routes |-> auto_generate(rts, locals.domain, locals.recorded_req) ]


\* A _handle_record that reads the mode again when forward_request returns and,
\* the mode being REPLAY by then, answers as a miss without saving anything.
_handle_record_RereadsMode(locals, o, fs, ds, rts) ==
    IF o.kind = "timeout"
    THEN [ outcome |-> "timeout", errors |-> 1, recorded |-> 0,
           result |-> Some(ErrorResult(504, "target timeout")),
           files |-> fs, dirs |-> ds, routes |-> rts ]
    ELSE IF o.kind = "connect_error"
    THEN [ outcome |-> "unreachable", errors |-> 1, recorded |-> 0,
           result |-> Some(ErrorResult(502, "target unreachable")),
           files |-> fs, dirs |-> ds, routes |-> rts ]
    ELSE IF mode = "replay"
    THEN [ outcome |-> "miss", errors |-> 0, recorded |-> 0,
           result |-> Some(ErrorResult(404, "no matching cassette found")),
           files |-> fs, dirs |-> ds, routes |-> rts ]
    ELSE LET cassette == BuildCassette(locals, The(o.response))
         IN  [ outcome |-> "recorded", errors |-> 0, recorded |-> 1,
               result |-> Some(LiveResult(The(o.response))),
               files |-> SaveFiles(fs, cassette, locals.matching_key),
               dirs |-> RouteDirs(SaveDirs(ds, cassette), locals.domain),
               routes |-> auto_generate(rts, locals.domain, locals.recorded_req) ]


\* A _handle_record that counts a failed forward as a recording as well.
_handle_record_CountsFailure(locals, o, fs, ds, rts) ==
    IF o.kind = "timeout"
    THEN [ outcome |-> "timeout", errors |-> 1, recorded |-> 1,
           result |-> Some(ErrorResult(504, "target timeout")),
           files |-> fs, dirs |-> ds, routes |-> rts ]
    ELSE IF o.kind = "connect_error"
    THEN [ outcome |-> "unreachable", errors |-> 1, recorded |-> 1,
           result |-> Some(ErrorResult(502, "target unreachable")),
           files |-> fs, dirs |-> ds, routes |-> rts ]
    ELSE LET cassette == BuildCassette(locals, The(o.response))
         IN  [ outcome |-> "recorded", errors |-> 0, recorded |-> 1,
               result |-> Some(LiveResult(The(o.response))),
               files |-> SaveFiles(fs, cassette, locals.matching_key),
               dirs |-> RouteDirs(SaveDirs(ds, cassette), locals.domain),
               routes |-> auto_generate(rts, locals.domain, locals.recorded_req) ]


\* A _handle_record whose increment of stats_recorded is written from a value
\* read before the await: it is lost when another call is still suspended.
_handle_record_LostUpdate(locals, o, fs, ds, rts) ==
    IF o.kind = "timeout"
    THEN [ outcome |-> "timeout", errors |-> 1, recorded |-> 0,
           result |-> Some(ErrorResult(504, "target timeout")),
           files |-> fs, dirs |-> ds, routes |-> rts ]
    ELSE IF o.kind = "connect_error"
    THEN [ outcome |-> "unreachable", errors |-> 1, recorded |-> 0,
           result |-> Some(ErrorResult(502, "target unreachable")),
           files |-> fs, dirs |-> ds, routes |-> rts ]
    ELSE LET cassette == BuildCassette(locals, The(o.response))
         IN  [ outcome |-> "recorded", errors |-> 0,
               recorded |-> IF Cardinality(DOMAIN inflight) > 1 THEN 0 ELSE 1,
               result |-> Some(LiveResult(The(o.response))),
               files |-> SaveFiles(fs, cassette, locals.matching_key),
               dirs |-> RouteDirs(SaveDirs(ds, cassette), locals.domain),
               routes |-> auto_generate(rts, locals.domain, locals.recorded_req) ]


\* A _handle_record that takes an upstream status of 500 or more for a failed
\* forward: counted as an error, passed on, and not recorded.
_handle_record_ServerErrorFails(locals, o, fs, ds, rts) ==
    IF o.kind = "timeout"
    THEN [ outcome |-> "timeout", errors |-> 1, recorded |-> 0,
           result |-> Some(ErrorResult(504, "target timeout")),
           files |-> fs, dirs |-> ds, routes |-> rts ]
    ELSE IF o.kind = "connect_error"
    THEN [ outcome |-> "unreachable", errors |-> 1, recorded |-> 0,
           result |-> Some(ErrorResult(502, "target unreachable")),
           files |-> fs, dirs |-> ds, routes |-> rts ]
    ELSE IF The(o.response).status_code >= 500
    THEN [ outcome |-> "unreachable", errors |-> 1, recorded |-> 0,
           result |-> Some(LiveResult(The(o.response))),
           files |-> fs, dirs |-> ds, routes |-> rts ]
    ELSE LET cassette == BuildCassette(locals, The(o.response))
         IN  [ outcome |-> "recorded", errors |-> 0, recorded |-> 1,
               result |-> Some(LiveResult(The(o.response))),
               files |-> SaveFiles(fs, cassette, locals.matching_key),
               dirs |-> RouteDirs(SaveDirs(ds, cassette), locals.domain),
               routes |-> auto_generate(rts, locals.domain, locals.recorded_req) ]


\* A _handle_record that generates the route config before it awaits
\* forward_request, so that the file is there however the forward ends.
_handle_record_RouteConfigFirst(locals, o, fs, ds, rts) ==
    IF o.kind = "timeout"
    THEN [ outcome |-> "timeout", errors |-> 1, recorded |-> 0,
           result |-> Some(ErrorResult(504, "target timeout")),
           files |-> fs, dirs |-> RouteDirs(ds, locals.domain),
           routes |-> auto_generate(rts, locals.domain, locals.recorded_req) ]
    ELSE IF o.kind = "connect_error"
    THEN [ outcome |-> "unreachable", errors |-> 1, recorded |-> 0,
           result |-> Some(ErrorResult(502, "target unreachable")),
           files |-> fs, dirs |-> RouteDirs(ds, locals.domain),
           routes |-> auto_generate(rts, locals.domain, locals.recorded_req) ]
    ELSE IF o.kind = "cancelled"
    THEN [ outcome |-> "cancelled", errors |-> 0, recorded |-> 0,
           result |-> None,
           files |-> fs, dirs |-> RouteDirs(ds, locals.domain),
           routes |-> auto_generate(rts, locals.domain, locals.recorded_req) ]
    ELSE LET cassette == BuildCassette(locals, The(o.response))
         IN  [ outcome |-> "recorded", errors |-> 0, recorded |-> 1,
               result |-> Some(LiveResult(The(o.response))),
               files |-> SaveFiles(fs, cassette, locals.matching_key),
               dirs |-> RouteDirs(SaveDirs(ds, cassette), locals.domain),
               routes |-> auto_generate(rts, locals.domain, locals.recorded_req) ]


\* A _handle_record that removes the cassette of the key when the forward
\* fails.
_handle_record_FailureUnlinks(locals, o, fs, ds, rts) ==
    IF o.kind = "timeout"
    THEN [ outcome |-> "timeout", errors |-> 1, recorded |-> 0,
           result |-> Some(ErrorResult(504, "target timeout")),
           files |-> Unlink(fs, {FilePath(locals.domain,
                                          _cassette_filename(locals.matching_key))}),
           dirs |-> ds, routes |-> rts ]
    ELSE IF o.kind = "connect_error"
    THEN [ outcome |-> "unreachable", errors |-> 1, recorded |-> 0,
           result |-> Some(ErrorResult(502, "target unreachable")),
           files |-> Unlink(fs, {FilePath(locals.domain,
                                          _cassette_filename(locals.matching_key))}),
           dirs |-> ds, routes |-> rts ]
    ELSE IF o.kind = "cancelled"
    THEN [ outcome |-> "cancelled", errors |-> 0, recorded |-> 0,
           result |-> None,
           files |-> fs, dirs |-> ds, routes |-> rts ]
    ELSE LET cassette == BuildCassette(locals, The(o.response))
         IN  [ outcome |-> "recorded", errors |-> 0, recorded |-> 1,
               result |-> Some(LiveResult(The(o.response))),
               files |-> SaveFiles(fs, cassette, locals.matching_key),
               dirs |-> RouteDirs(SaveDirs(ds, cassette), locals.domain),
               routes |-> auto_generate(rts, locals.domain, locals.recorded_req) ]

\* ProxyHandler._handle_record from the return of forward_request on:
\* the outcome, the counters, the result and the store after it.  The
\* cancellation of the call is raised at the await, as asyncio.CancelledError,
\* which no except clause of lines 218-227 catches: the call ends there.
_handle_record(locals, o, fs, ds, rts) ==
    IF o.kind = "timeout"
    THEN [ outcome |-> "timeout", errors |-> 1, recorded |-> 0,
           result |-> Some(ErrorResult(504, "target timeout")),
           files |-> fs, dirs |-> ds, routes |-> rts ]
    ELSE IF o.kind = "connect_error"
    THEN [ outcome |-> "unreachable", errors |-> 1, recorded |-> 0,
           result |-> Some(ErrorResult(502, "target unreachable")),
           files |-> fs, dirs |-> ds, routes |-> rts ]
    ELSE IF o.kind = "cancelled"
    THEN [ outcome |-> "cancelled", errors |-> 0, recorded |-> 0,
           result |-> None,
           files |-> fs, dirs |-> ds, routes |-> rts ]
    ELSE LET cassette == BuildCassette(locals, The(o.response))
         IN  [ outcome |-> "recorded", errors |-> 0, recorded |-> 1,
               result |-> Some(LiveResult(The(o.response))),
               files |-> SaveFiles(fs, cassette, locals.matching_key),
               dirs |-> RouteDirs(SaveDirs(ds, cassette), locals.domain),
               routes |-> auto_generate(rts, locals.domain, locals.recorded_req) ]

\* ----------------------------------------------------------------- actions

\* No call has taken any path yet.
NoPaths ==
    [ calls |-> 0, hit |-> 0, miss |-> 0, recorded |-> 0, error |-> 0,
      replay_miss |-> 0, raised |-> 0 ]

\* The paths after a stretch of a call dispatched in mode m ended as outcome:
\* a SPY call that goes on to forward has missed; a miss that is answered
\* 404 is a REPLAY miss; a call that ended in an exception has raised.
Took(paths, m, outcome) ==
    IF outcome = "hit" THEN [paths EXCEPT !.hit = @ + 1]
    ELSE IF outcome = "miss"
    THEN [paths EXCEPT !.miss = @ + 1, !.replay_miss = @ + 1]
    ELSE IF outcome = "forward" /\ m = "spy"
    THEN [paths EXCEPT !.miss = @ + 1]
    ELSE IF outcome \in {"raised", "cancelled"}
    THEN [paths EXCEPT !.raised = @ + 1]
    ELSE IF outcome = "recorded" THEN [paths EXCEPT !.recorded = @ + 1]
    ELSE IF outcome \in {"no_target", "timeout", "unreachable"}
    THEN [paths EXCEPT !.error = @ + 1]
    ELSE paths

Init ==
    /\ mode \in Modes
    /\ stats_total = 0
    /\ stats_hits = 0
    /\ stats_misses = 0
    /\ stats_recorded = 0
    /\ stats_errors = 0
    /\ files = <<>>
    /\ dirs = {}
    /\ routes = <<>>
    /\ inflight = <<>>
    /\ last = Event("init", 0, "", "", None, None, None)
    /\ origin = <<>>
    /\ taken = NoPaths
    /\ _pending_record = {}

Without(f, gone) == [x \in (DOMAIN f) \ gone |-> f[x]]

\* The ignore rules of the route's file as RouteConfigManager.load and
\* RouteConfig's default give them: empty when there is no file.
IgnoreOnDisk(rts, locals) ==
    LET rule == load(rts, locals.domain, locals.recorded_req.method,
                     locals.recorded_req.path)
    IN  IF IsNone(rule) THEN EmptyIgnore ELSE The(rule).ignore

\* A call of handle, to its return or to its suspension in forward_request.
Dispatch(r) ==
    /\ LET e == handle(r, mode, files, dirs)
           id == stats_total + 1
       IN  /\ ~IsNone(e.suspend) => Cardinality(DOMAIN inflight) < MaxInflight
           /\ stats_total' = stats_total + 1
           /\ stats_hits' = stats_hits + e.hits
           /\ stats_misses' = stats_misses + e.misses
           /\ stats_errors' = stats_errors + e.errors
           /\ inflight' = IF IsNone(e.suspend) THEN inflight
                          ELSE (id :> ([ignore |-> IgnoreOnDisk(routes, The(e.suspend))]
                                           @@ The(e.suspend))) @@ inflight
           /\ last' = Event("handle", id, mode, e.outcome, Some(r), e.result, None)
           /\ taken' = Took([taken EXCEPT !.calls = @ + 1], mode, e.outcome)
    /\ UNCHANGED <<mode, stats_recorded, files, dirs, routes, origin, _pending_record>>

\* A call of handle, among at most MaxRequests.
Handle(r) ==
    /\ stats_total < MaxRequests
    /\ Dispatch(r)

\* forward_request returns or raises, and the suspended call runs to its end.
Forwarded(id, o) ==
    /\ id \in DOMAIN inflight
    /\ LET locals == inflight[id]
           e == _handle_record(locals, o, files, dirs, routes)
           filepath == FilePath(locals.domain, _cassette_filename(locals.matching_key))
       IN  /\ stats_errors' = stats_errors + e.errors
           /\ stats_recorded' = stats_recorded + e.recorded
           /\ files' = e.files
           /\ dirs' = e.dirs
           /\ routes' = e.routes
           /\ last' = Event("handle", id, locals.mode, e.outcome, Some(locals.request),
                            e.result, Some(o))
           /\ taken' = Took(taken, locals.mode, e.outcome)
           /\ origin' = IF o.kind = "response"
                        THEN (filepath :> [ mode |-> locals.mode,
                                            request |-> locals.request,
                                            ignore |-> locals.ignore,
                                            response |-> The(o.response) ]) @@ origin
                        ELSE origin
    /\ inflight' = Without(inflight, {id})
    /\ UNCHANGED <<mode, stats_total, stats_hits, stats_misses, _pending_record>>

\* admin.set_mode
SetMode(m) ==
    /\ mode' = m
    /\ UNCHANGED <<stats, store, inflight, last, origin, taken, _pending_record>>

\* admin.delete_cassette -> CassetteStorage.delete
Delete(f) ==
    /\ f \in DOMAIN files
    /\ files' = Unlink(files, {f})
    /\ origin' = Without(origin, {f})
    /\ UNCHANGED <<mode, stats, dirs, routes, inflight, last, taken, _pending_record>>

\* admin.delete_domain_cassettes -> CassetteStorage.delete_domain
DeleteDomain(d) ==
    /\ LET gone == list_cassettes(files, dirs, d)
       IN  /\ files' = Unlink(files, gone)
           /\ origin' = Without(origin, gone)
    /\ UNCHANGED <<mode, stats, dirs, routes, inflight, last, taken, _pending_record>>

\* admin.delete_all_cassettes -> CassetteStorage.delete_all
DeleteAll ==
    /\ LET gone == list_all(files, dirs)
       IN  /\ files' = Unlink(files, gone)
           /\ origin' = Without(origin, gone)
    /\ UNCHANGED <<mode, stats, dirs, routes, inflight, last, taken, _pending_record>>

\* What a hand edit leaves of a cassette file: a text that does not parse.
BrokenText == <<"{">>

\* A user edits a cassette file by hand and leaves text that does not parse.
EditCassette(f) ==
    /\ f \in DOMAIN files
    /\ files[f] # BrokenText
    /\ files' = write_text(files, f, BrokenText)
    /\ origin' = Without(origin, {f})
    /\ UNCHANGED <<mode, stats, dirs, routes, inflight, last, taken, _pending_record>>

\* A user writes the route override of POST /l by hand, before any recording
\* of the route created one (tests/test_body_fields_ignore.py).
WriteRouteConfig ==
    LET config_path == _config_path("t", UserOverride.route.method, UserOverride.route.path)
    IN  /\ config_path \notin DOMAIN routes
        /\ routes' = (config_path :> Some(UserOverride)) @@ routes
        /\ dirs' = RouteDirs(dirs, "t")
        /\ UNCHANGED <<mode, stats, files, inflight, last, origin, taken, _pending_record>>

\* The dispatcher under every upstream outcome, with the admin API and a
\* user editing cassette files.
Next ==
    \/ \E r \in Requests : Handle(r)
    \/ \E id \in DOMAIN inflight : \E o \in UpstreamOutcomes : Forwarded(id, o)
    \/ \E m \in Modes : SetMode(m)
    \/ \E f \in DOMAIN files : Delete(f)
    \/ DeleteDomain("t")
    \/ DeleteAll
    \/ \E f \in DOMAIN files : EditCassette(f)

Spec == Init /\ [][Next]_vars

\* The dispatcher on requests that differ in one header or body field, with
\* a user-written route override and an upstream that answers UpJson.
NextRules ==
    \/ \E r \in RuleRequests : Handle(r)
    \/ \E id \in DOMAIN inflight : Forwarded(id, [kind |-> "response", response |-> Some(UpJson)])
    \/ \E m \in Modes : SetMode(m)
    \/ WriteRouteConfig

SpecRules == Init /\ [][NextRules]_vars

\* The outer server cancels the call suspended in forward_request.
Cancelled(id) == Forwarded(id, [kind |-> "cancelled", response |-> None])

\* The dispatcher whose suspended calls may be cancelled.
NextCancel ==
    \/ \E r \in Requests : Handle(r)
    \/ \E id \in DOMAIN inflight : \E o \in UpstreamOutcomes : Forwarded(id, o)
    \/ \E id \in DOMAIN inflight : Cancelled(id)
    \/ \E m \in Modes : SetMode(m)

SpecCancel == Init /\ [][NextCancel]_vars


\* A user adds the ignore rule body_fields: [login] to the route config a
\* recording has generated for POST /l.
AddIgnoreRule ==
    LET config_path == _config_path("t", UserOverride.route.method, UserOverride.route.path)
    IN  /\ config_path \in DOMAIN routes
        /\ ~IsNone(routes[config_path])
        /\ The(routes[config_path]).ignore = EmptyIgnore
        /\ routes' = (config_path :> Some([The(routes[config_path])
                                              EXCEPT !.ignore = UserOverride.ignore]))
                         @@ routes
        /\ UNCHANGED <<mode, stats, files, dirs, inflight, last, origin, taken, _pending_record>>

\* The dispatcher with a user who adds an ignore rule to a route config
\* after the route was recorded, and an upstream that answers UpJson.
NextLateRule ==
    \/ \E r \in {ReqA, ReqOtherLogin} : Handle(r)
    \/ \E id \in DOMAIN inflight : Forwarded(id, [kind |-> "response", response |-> Some(UpJson)])
    \/ \E m \in Modes : SetMode(m)
    \/ AddIgnoreRule

SpecLateRule == Init /\ [][NextLateRule]_vars

\* The calls of handle in SpecKeys.
MaxCalls == 3

\* A call of handle by a client that waits for each answer before it sends
\* its next request.
Call(r) ==
    /\ stats_total < MaxCalls
    /\ inflight = <<>>
    /\ Dispatch(r)

\* The dispatcher on requests sent one after the other, whose JSON bodies
\* differ in the order of their keys or in a value, with an upstream that
\* answers UpJson or UpBinary.
NextKeys ==
    \/ \E r \in KeyRequests : Call(r)
    \/ \E id \in DOMAIN inflight : \E u \in {UpJson, UpBinary} :
           Forwarded(id, [kind |-> "response", response |-> Some(u)])
    \/ \E m \in Modes : SetMode(m)

SpecKeys == Init /\ [][NextKeys]_vars

\* ------------------------------------------- the cassette store on its own

\* The calls made on the store in SpecStore and SpecRoutes.
MaxOps == 4

StoreDomains == {"t", "u"}

\* The keys the store is called with: those of ReqA and of ReqOtherAction.
StoreKeys == {The(LocalsOf[r]).matching_key : r \in {ReqA, ReqOtherAction}}

\* The cassettes the store is given: the exchange of ReqA with UpJson or with
\* UpBinary, recorded for either domain.
StoreCassettes ==
    {BuildCassette([The(LocalsOf[ReqA]) EXCEPT !.domain = d], u) :
        d \in StoreDomains, u \in {UpJson, UpBinary}}

NoFilename == [method |-> "", slug |-> <<>>, hash |-> <<>>]

\* A call on the store: its number, its arguments and what it returned.
StoreEvent(op, n, domain, filename, found, ok, count) ==
    [ op |-> op, n |-> n, domain |-> domain, filename |-> filename,
      found |-> found, ok |-> ok, count |-> count ]

InitStore ==
    /\ mode = "spy"
    /\ stats_total = 0
    /\ stats_hits = 0
    /\ stats_misses = 0
    /\ stats_recorded = 0
    /\ stats_errors = 0
    /\ files = <<>>
    /\ dirs = {}
    /\ routes = <<>>
    /\ inflight = <<>>
    /\ last = StoreEvent("init", 0, "", NoFilename, None, FALSE, 0)
    /\ origin = <<>>
    /\ taken = NoPaths
    /\ _pending_record = {}

\* CassetteStorage.save(cassette, matching_key)
Save(cassette, matching_key) ==
    /\ last.n < MaxOps
    /\ files' = SaveFiles(files, cassette, matching_key)
    /\ dirs' = SaveDirs(dirs, cassette)
    /\ origin' = (FilePath(cassette.meta.domain, _cassette_filename(matching_key))
                      :> cassette) @@ origin
    /\ last' = StoreEvent("save", last.n + 1, cassette.meta.domain,
                          _cassette_filename(matching_key), None, FALSE, 0)
    /\ UNCHANGED <<mode, stats, routes, inflight, taken, _pending_record>>

\* CassetteStorage.lookup(domain, matching_key); it does not raise on the
\* texts save writes.
Lookup(domain, matching_key) ==
    /\ last.n < MaxOps
    /\ ~lookup(files, dirs, domain, matching_key).raised
    /\ last' = StoreEvent("lookup", last.n + 1, domain, _cassette_filename(matching_key),
                          lookup(files, dirs, domain, matching_key).value, FALSE, 0)
    /\ UNCHANGED <<mode, stats, store, inflight, origin, taken, _pending_record>>

\* CassetteStorage.delete(domain, cassette_id)
StoreDelete(domain, cassette_id) ==
    /\ last.n < MaxOps
    /\ files' = delete(files, domain, cassette_id).files
    /\ origin' = Without(origin, {FilePath(domain, cassette_id)})
    /\ last' = StoreEvent("delete", last.n + 1, domain, cassette_id, None,
                          delete(files, domain, cassette_id).result, 0)
    /\ UNCHANGED <<mode, stats, dirs, routes, inflight, taken, _pending_record>>

\* CassetteStorage.delete_domain(domain)
StoreDeleteDomain(domain) ==
    /\ last.n < MaxOps
    /\ files' = delete_domain(files, dirs, domain).files
    /\ origin' = Without(origin, {f \in DOMAIN origin : f \notin DOMAIN files'})
    /\ last' = StoreEvent("delete_domain", last.n + 1, domain, NoFilename, None, FALSE,
                          delete_domain(files, dirs, domain).result)
    /\ UNCHANGED <<mode, stats, dirs, routes, inflight, taken, _pending_record>>

\* CassetteStorage.delete_all()
StoreDeleteAll ==
    /\ last.n < MaxOps
    /\ files' = delete_all(files, dirs).files
    /\ origin' = Without(origin, {f \in DOMAIN origin : f \notin DOMAIN files'})
    /\ last' = StoreEvent("delete_all", last.n + 1, "", NoFilename, None, FALSE,
                          delete_all(files, dirs).result)
    /\ UNCHANGED <<mode, stats, dirs, routes, inflight, taken, _pending_record>>

\* The store under every order of its calls.
NextStore ==
    \/ \E c \in StoreCassettes : \E k \in StoreKeys : Save(c, k)
    \/ \E d \in StoreDomains : \E k \in StoreKeys : Lookup(d, k)
    \/ \E d \in StoreDomains : \E k \in StoreKeys : StoreDelete(d, _cassette_filename(k))
    \/ \E d \in StoreDomains : StoreDeleteDomain(d)
    \/ StoreDeleteAll

SpecStore == InitStore /\ [][NextStore]_vars

\* ------------------------------------------ the route configs on their own

\* The recorded requests auto_generate is called with: two of the route
\* POST /l with different bodies, queries and headers, and one of GET /x.
RouteRequests ==
    { _build_recorded_request("POST", <<"/", "l">>, <<>>, ReqA.headers, ReqA.body),
      _build_recorded_request("POST", <<"/", "l">>, <<"page", "=", "x">>, <<JsonCT>>,
                              Some(<<"{", "q", "x", "}">>)),
      _build_recorded_request("GET", <<"/", "x">>, <<"q", "=", "x">>,
                              <<<<"accept", "text/plain">>>>, None) }

\* What a user may have written for POST /l before the first recording: the
\* override of UserOverride, or one that also lists a matched body field.
UserOverrides ==
    { UserOverride, [UserOverride EXCEPT !.matched.body_fields = <<"z">>] }

\* The names a request shows in each matched list.
Observed(request) ==
    [ body_fields |-> SeqToSet(_extract_body_fields(request.body, request.content_type)),
      query_params |-> Keys(request.query),
      headers |-> {Lower(request.headers[i][1]) : i \in DOMAIN request.headers} ]

InitRoutes ==
    /\ mode = "spy"
    /\ stats_total = 0
    /\ stats_hits = 0
    /\ stats_misses = 0
    /\ stats_recorded = 0
    /\ stats_errors = 0
    /\ files = <<>>
    /\ dirs = {}
    /\ routes = <<>>
    /\ inflight = <<>>
    /\ last = StoreEvent("init", 0, "", NoFilename, None, FALSE, 0)
    /\ origin = <<>>
    /\ taken = NoPaths
    /\ _pending_record = {}

\* A user writes an override for POST /l of domain t before the route was
\* ever recorded.
WriteOverride(o) ==
    LET config_path == _config_path("t", o.route.method, o.route.path)
    IN  /\ last.n < MaxOps
        /\ config_path \notin DOMAIN routes
        /\ routes' = (config_path :> Some(o)) @@ routes
        /\ dirs' = RouteDirs(dirs, "t")
        /\ last' = StoreEvent("write", last.n + 1, "t", NoFilename, None, FALSE, 0)
        /\ UNCHANGED <<mode, stats, files, inflight, origin, taken, _pending_record>>

\* RouteConfigManager.auto_generate(domain, request).  origin keeps, per
\* route file, what the file held before the first call and the names the
\* calls have observed since.
AutoGenerate(domain, request) ==
    LET config_path == _config_path(domain, request.method, request.path)
        first == config_path \notin DOMAIN origin
        before == IF first THEN load(routes, domain, request.method, request.path)
                  ELSE origin[config_path].before
        seen == IF first THEN [body_fields |-> {}, query_params |-> {}, headers |-> {}]
                ELSE origin[config_path].seen
        now == Observed(request)
    IN  /\ last.n < MaxOps
        /\ routes' = auto_generate(routes, domain, request)
        /\ dirs' = RouteDirs(dirs, domain)
        /\ origin' = (config_path :>
                        [ before |-> before,
                          seen |-> [ body_fields |-> seen.body_fields \cup now.body_fields,
                                     query_params |-> seen.query_params \cup now.query_params,
                                     headers |-> seen.headers \cup now.headers ] ]) @@ origin
        /\ last' = StoreEvent("auto_generate", last.n + 1, domain, NoFilename,
                              None, FALSE, 0)
        /\ UNCHANGED <<mode, stats, files, inflight, taken, _pending_record>>

NextRoutes ==
    \/ \E o \in UserOverrides : WriteOverride(o)
    \/ \E d \in StoreDomains : \E request \in RouteRequests : AutoGenerate(d, request)

SpecRoutes == InitRoutes /\ [][NextRoutes]_vars


\* ------------------------------------------- the admin API's mode endpoints

\* The validation of the body of PUT /api/mode as a ModeRequest: the body has
\* a field mode whose value is one of ProxyMode's values, as written.  body
\* is the value of the field, None when the field is missing.
ModeRequest(body) ==
    IF ~IsNone(body) /\ The(body) \in Modes THEN Some(The(body)) ELSE None

\* A set_mode that assigns the value of the body before it is validated.
set_mode_AssignsFirst(m, body) ==
    IF IsNone(ModeRequest(body))
    THEN [ mode |-> IF IsNone(body) THEN m ELSE The(body),
           status |-> 422, body |-> None ]
    ELSE [ mode |-> The(ModeRequest(body)), status |-> 200,
           body |-> Some(The(ModeRequest(body))) ]

\* PUT /api/mode on a handler whose mode is m: the handler's mode after it,
\* the status and the mode field of the answer.  A body that is no
\* ModeRequest is answered 422 before set_mode runs.
set_mode(m, body) ==
    IF IsNone(ModeRequest(body))
    THEN [ mode |-> m, status |-> 422, body |-> None ]
    ELSE [ mode |-> The(ModeRequest(body)), status |-> 200,
           body |-> Some(The(ModeRequest(body))) ]

\* GET /api/mode
get_mode(m) == [ mode |-> m, status |-> 200, body |-> Some(m) ]

\* The bodies sent to PUT /api/mode: no mode field, the three modes, and
\* values that are none of them.
ModeBodies == {None} \cup {Some(v) : v \in Modes \cup {"invalid", "RECORD", "Replay", ""}}

\* A call of the admin API: its number, the body sent, the status and the
\* mode field of the answer, and the handler's mode before the call.
AdminEvent(op, n, input, status, body, was) ==
    [ op |-> op, n |-> n, input |-> input, status |-> status, body |-> body, was |-> was ]

InitAdmin ==
    /\ mode \in Modes
    /\ stats_total = 0
    /\ stats_hits = 0
    /\ stats_misses = 0
    /\ stats_recorded = 0
    /\ stats_errors = 0
    /\ files = <<>>
    /\ dirs = {}
    /\ routes = <<>>
    /\ inflight = <<>>
    /\ last = AdminEvent("init", 0, None, 0, None, "")
    /\ origin = <<>>
    /\ taken = NoPaths
    /\ _pending_record = {}

PutMode(body) ==
    /\ last.n < MaxOps
    /\ mode' = set_mode(mode, body).mode
    /\ last' = AdminEvent("put_mode", last.n + 1, body, set_mode(mode, body).status,
                          set_mode(mode, body).body, mode)
    /\ UNCHANGED <<stats, store, inflight, origin, taken, _pending_record>>

GetMode ==
    /\ last.n < MaxOps
    /\ mode' = get_mode(mode).mode
    /\ last' = AdminEvent("get_mode", last.n + 1, None, get_mode(mode).status,
                          get_mode(mode).body, mode)
    /\ UNCHANGED <<stats, store, inflight, origin, taken, _pending_record>>

\* The mode endpoints under every order of their calls.
NextAdmin ==
    \/ \E body \in ModeBodies : PutMode(body)
    \/ GetMode

SpecAdmin == InitAdmin /\ [][NextAdmin]_vars


\* --------------------------------------------- the matching key of a query

\* The parameters of a query string in SpecMatch.
MaxQuery == 3

\* The parameters a query string is made of: two values of a, one of b.
QueryPairs == {<<"a", "0">>, <<"a", "1">>, <<"b", "2">>}

\* The query strings of up to MaxQuery parameters, in every order.
QueryStrings ==
    {JoinForm(pairs) : pairs \in UNION {[1..n -> QueryPairs] : n \in 0..MaxQuery}}

\* GET /a/l with the query string qs.
QueryRequest(qs) ==
    [ method |-> "GET", path |-> <<"/", "a", "/", "l">>, query_string |-> qs,
      headers |-> <<>>, body |-> None ]

\* The ignore rules of the route: none, or query_params naming a, b, both,
\* or a parameter no request has.
QueryIgnores ==
    {None} \cup
    {Some([headers |-> <<>>, body_fields |-> <<>>, query_params |-> names]) :
        names \in {<<"a">>, <<"b">>, <<"a", "b">>, <<"c">>}}

\* The matching key of the request r as handle builds it (lines 153-170),
\* under the route's ignore rules.
KeyOf(r, route_ignore) ==
    compute_matching_key(The(HandleLocals(r)).recorded_req, AlwaysIgnoreHeaders,
                         route_ignore)


\* A computation of a matching key: the request, the ignore rules and the key.
MatchEvent(op, request, route_ignore, key) ==
    [ op |-> op, request |-> request, route_ignore |-> route_ignore, key |-> key ]

InitMatch ==
    /\ mode = "spy"
    /\ stats_total = 0
    /\ stats_hits = 0
    /\ stats_misses = 0
    /\ stats_recorded = 0
    /\ stats_errors = 0
    /\ files = <<>>
    /\ dirs = {}
    /\ routes = <<>>
    /\ inflight = <<>>
    /\ last = MatchEvent("init", QueryRequest(<<>>), None, KeyOf(QueryRequest(<<>>), None))
    /\ origin = <<>>
    /\ taken = NoPaths
    /\ _pending_record = {}

\* compute_matching_key on the request handle builds from r.
ComputeKey(r, route_ignore) ==
    /\ last' = MatchEvent("key", r, route_ignore, KeyOf(r, route_ignore))
    /\ UNCHANGED <<mode, stats, store, inflight, origin, taken, _pending_record>>

NextMatch == \E qs \in QueryStrings : \E route_ignore \in QueryIgnores :
                 ComputeKey(QueryRequest(qs), route_ignore)

SpecMatch == InitMatch /\ [][NextMatch]_vars


\* ------------------------------------------------- the target of a path

\* The entries of a targets map in SpecResolve.
MaxTargets == 3

\* The prefixes configured: the catch-all, /a, /a/l below it, and /x.
Prefixes == {<<"/">>, <<"/", "a">>, <<"/", "a", "/", "l">>, <<"/", "x">>}

\* The base URL a prefix is mapped to: one host per prefix.
UrlOf(prefix) ==
    [ scheme |-> "http",
      host |-> CASE prefix = <<"/">> -> "d"
                 [] prefix = <<"/", "a">> -> "t"
                 [] prefix = <<"/", "a", "/", "l">> -> "u"
                 [] OTHER -> "v",
      trailing |-> "/" ]

\* The targets maps: up to MaxTargets of the prefixes, in every order of
\* insertion.
TargetMaps ==
    {[i \in DOMAIN ps |-> <<ps[i], UrlOf(ps[i])>>] :
        ps \in {q \in UNION {[1..n -> Prefixes] : n \in 0..MaxTargets} :
                    \A i, j \in DOMAIN q : i # j => q[i] # q[j]}}

\* The paths resolved: /, /a, /ax, /a/, /a/l, /a/l/x, /x, /u.
ResolvePaths ==
    { <<"/">>, <<"/", "a">>, <<"/", "a", "x">>, <<"/", "a", "/">>,
      <<"/", "a", "/", "l">>, <<"/", "a", "/", "l", "/", "x">>, <<"/", "x">>,
      <<"/", "u">> }

\* A call of _resolve_target: its arguments and what it returned.
ResolveEvent(op, path, targets, result) ==
    [ op |-> op, path |-> path, targets |-> targets, result |-> result ]

InitResolve ==
    /\ mode = "spy"
    /\ stats_total = 0
    /\ stats_hits = 0
    /\ stats_misses = 0
    /\ stats_recorded = 0
    /\ stats_errors = 0
    /\ files = <<>>
    /\ dirs = {}
    /\ routes = <<>>
    /\ inflight = <<>>
    /\ last = ResolveEvent("init", <<"/">>, <<>>, None)
    /\ origin = <<>>
    /\ taken = NoPaths
    /\ _pending_record = {}

\* _resolve_target(path, targets)
Resolve(path, targets) ==
    /\ last' = ResolveEvent("resolve", path, targets, _resolve_target(path, targets))
    /\ UNCHANGED <<mode, stats, store, inflight, origin, taken, _pending_record>>

NextResolve == \E path \in ResolvePaths : \E targets \in TargetMaps : Resolve(path, targets)

SpecResolve == InitResolve /\ [][NextResolve]_vars


\* ------------------------------------------------- the slug of a path

\* The characters after the leading '/' of a path in SpecSlug.
MaxPath == 3

\* The characters the paths are made of: '/', a letter, '-' and '.', which is
\* outside [a-zA-Z0-9_\-].
PathChars == {"/", "a", "-", "."}

\* The paths: '/' followed by up to MaxPath characters.
SlugPaths == {<<"/">> \o p : p \in UNION {[1..n -> PathChars] : n \in 0..MaxPath}}

\* The slug of a path in the name of a cassette file and in the name of a
\* route-config file.
SlugEvent(op, method, path, cassette_slug, config_path) ==
    [ op |-> op, method |-> method, path |-> path, cassette_slug |-> cassette_slug,
      config_path |-> config_path ]

InitSlug ==
    /\ mode = "spy"
    /\ stats_total = 0
    /\ stats_hits = 0
    /\ stats_misses = 0
    /\ stats_recorded = 0
    /\ stats_errors = 0
    /\ files = <<>>
    /\ dirs = {}
    /\ routes = <<>>
    /\ inflight = <<>>
    /\ last = SlugEvent("init", "GET", <<"/">>, _path_to_slug(<<"/">>),
                        _config_path("t", "GET", <<"/">>))
    /\ origin = <<>>
    /\ taken = NoPaths
    /\ _pending_record = {}

\* _path_to_slug(path) and RouteConfigManager._config_path(domain, method, path)
Slug(method, path) ==
    /\ last' = SlugEvent("slug", method, path, _path_to_slug(path),
                         _config_path("t", method, path))
    /\ UNCHANGED <<mode, stats, store, inflight, origin, taken, _pending_record>>

NextSlug == \E method \in {"GET", "post"} : \E path \in SlugPaths : Slug(method, path)

SpecSlug == InitSlug /\ [][NextSlug]_vars


\* ------------------------------------------- the headers of a matching key

\* The headers a request may carry, as the client spelled their names.
HeaderPool ==
    << <<"accept", "x">>, <<"Date", "z">>, <<"authorization", "tokA">>,
       <<"Content-Type", "application/json">> >>

\* The items of the sequence s at the positions in S, in their order.
Picked(s, S) ==
    LET F[i \in 0..Len(s)] ==
            IF i = 0 THEN <<>>
            ELSE IF i \in S THEN Append(F[i - 1], s[i]) ELSE F[i - 1]
    IN  F[Len(s)]

HeaderDicts == {Picked(HeaderPool, S) : S \in SUBSET DOMAIN HeaderPool}

\* Settings.always_ignore_headers as the operator configured it.
ConfiguredIgnores == {{}, {"date"}, {"Date"}, {"Content-Type"}}

\* RouteIgnoreConfig.headers as written in the route's file.
RouteHeaderIgnores == {<<>>, <<"authorization">>, <<"Authorization">>, <<"Date">>}

HeadersEvent(op, headers, ignore_headers, route_ignore, result) ==
    [ op |-> op, headers |-> headers, ignore_headers |-> ignore_headers,
      route_ignore |-> route_ignore, result |-> result ]

InitHeaders ==
    /\ mode = "spy"
    /\ stats_total = 0
    /\ stats_hits = 0
    /\ stats_misses = 0
    /\ stats_recorded = 0
    /\ stats_errors = 0
    /\ files = <<>>
    /\ dirs = {}
    /\ routes = <<>>
    /\ inflight = <<>>
    /\ last = HeadersEvent("init", <<>>, {}, <<>>, _normalize_headers(<<>>, {}, <<>>))
    /\ origin = <<>>
    /\ taken = NoPaths
    /\ _pending_record = {}

\* _normalize_headers(headers, ignore_headers, route_ignore)
NormalizeHeaders(headers, ignore_headers, route_ignore) ==
    /\ last' = HeadersEvent("headers", headers, ignore_headers, route_ignore,
                            _normalize_headers(headers, ignore_headers, route_ignore))
    /\ UNCHANGED <<mode, stats, store, inflight, origin, taken, _pending_record>>

NextHeaders ==
    \E headers \in HeaderDicts : \E ignore_headers \in ConfiguredIgnores :
        \E route_ignore \in RouteHeaderIgnores :
            NormalizeHeaders(headers, ignore_headers, route_ignore)

SpecHeaders == InitHeaders /\ [][NextHeaders]_vars


\* ------------------------------------------------- the body of a replayed answer

MaxBody == 3

\* The bodies an upstream sends: up to MaxBody bytes, ASCII or not.
BodyBytes == UNION {[1..n -> {"a", "b", "xFF"}] : n \in 0..MaxBody}

BodyContentTypes == {"application/octet-stream", "text/plain", "application/json"}

UpstreamWith(content_type, content) ==
    [ status_code |-> 200,
      headers |-> <<<<"content-type", content_type>>>>,
      content |-> content ]

\* The responses a cassette file may hold: a null body, a string, base64 text.
StoredResponses ==
    {[ status_code |-> 200, headers |-> <<>>, body |-> body, body_encoding |-> "utf-8" ] :
        body \in {None, Some(<<>>), Some(<<"a">>), Some(<<"a", "uFFFD">>)}}
    \cup {[ status_code |-> 200, headers |-> <<>>, body |-> body,
            body_encoding |-> "base64" ] :
              body \in {None} \cup {Some(B64Encode(bs)) : bs \in {<<>>, <<"xFF">>, <<"a", "xFF">>}}}

DecodeEvent(op, upstream, response, bytes) ==
    [ op |-> op, upstream |-> upstream, response |-> response, bytes |-> bytes ]

InitDecode ==
    /\ mode = "replay"
    /\ stats_total = 0
    /\ stats_hits = 0
    /\ stats_misses = 0
    /\ stats_recorded = 0
    /\ stats_errors = 0
    /\ files = <<>>
    /\ dirs = {}
    /\ routes = <<>>
    /\ inflight = <<>>
    /\ last = DecodeEvent("init", None,
                          [ status_code |-> 200, headers |-> <<>>, body |-> None,
                            body_encoding |-> "utf-8" ], <<>>)
    /\ origin = <<>>
    /\ taken = NoPaths
    /\ _pending_record = {}

\* ProxyHandler._decode_body(response) on the response of a cassette.
DecodeStored(response) ==
    /\ last' = DecodeEvent("decode", None, response, _decode_body(response))
    /\ UNCHANGED <<mode, stats, store, inflight, origin, taken, _pending_record>>

\* The body's way from the upstream to a REPLAY hit: _build_recorded_response,
\* the cassette's text written and read back, _decode_body.
RecordThenDecode(upstream) ==
    LET recorded == _build_recorded_response(upstream)
        text == model_dump_json([meta |-> <<>>, request |-> <<>>, response |-> recorded])
        cassette == The(model_validate_json(text))
    IN  /\ last' = DecodeEvent("replayed", Some(upstream), cassette.response,
                               _decode_body(cassette.response))
        /\ UNCHANGED <<mode, stats, store, inflight, origin, taken, _pending_record>>

NextDecode ==
    \/ \E response \in StoredResponses : DecodeStored(response)
    \/ \E ct \in BodyContentTypes : \E bs \in BodyBytes :
          RecordThenDecode(UpstreamWith(ct, bs))

SpecDecode == InitDecode /\ [][NextDecode]_vars


\* ------------------------------------------------- forward.py: the VCRAddon

\* recording.build_recorded_request, called without sensitive_headers:
\* redact_headers leaves every value as it is.
build_recorded_request(method, path, query_string, headers, body) ==
    LET content_type == DictGet(headers, "content-type")
        truthy == ~IsNone(body) /\ The(body) # <<>>
        text == truthy /\ _is_text_content(content_type)
    IN  [ method |-> Upper(method),
          path |-> path,
          query |-> IF query_string # <<>> THEN parse_qs(query_string) ELSE <<>>,
          headers |-> LowerKeys(headers),
          body |-> IF text THEN Some(Utf8Decode(The(body)))
                   ELSE IF truthy THEN Some(B64Encode(The(body)))
                   ELSE None,
          body_encoding |-> IF truthy /\ ~text THEN "base64" ELSE "utf-8",
          content_type |-> content_type ]

\* recording.build_recorded_response_from_raw, called without
\* sensitive_headers: the headers are kept as the dict holds them.
build_recorded_response_from_raw(status_code, headers, body) ==
    LET content_type == DictGet(headers, "content-type")
        truthy == body # <<>>
        text == truthy /\ _is_text_content(content_type)
    IN  [ status_code |-> status_code,
          headers |-> headers,
          body |-> IF text THEN Some(Utf8Decode(body))
                   ELSE IF truthy THEN Some(B64Encode(body))
                   ELSE None,
          body_encoding |-> IF truthy /\ ~text THEN "base64" ELSE "utf-8" ]

\* forward._decode_body
forward_decode_body(response) ==
    IF IsNone(response.body) THEN <<>>
    ELSE IF response.body_encoding = "base64" THEN B64Decode(The(response.body))
    ELSE Utf8Encode(The(response.body))

\* What request() leaves behind: the counters it adds to, flow.response when
\* it answers the flow itself, flow.metadata, and whether flow.id joins
\* _pending_record.
AddonEffect(outcome, hits, misses, response, metadata, pending) ==
    [ outcome |-> outcome, hits |-> hits, misses |-> misses, response |-> response,
      metadata |-> metadata, pending |-> pending ]

\* The locals of request(): domain, recorded_req, matching_key.
FlowMetadata(req) ==
    LET recorded_req == build_recorded_request(req.method, req.path, req.query_string,
                                               req.headers, req.body)
    IN  [ vcr_domain |-> req.host,
          vcr_matching_key |-> compute_matching_key(recorded_req, AlwaysIgnoreHeaders, None),
          vcr_recorded_req |-> recorded_req ]

\* A request() that fills flow.metadata before it looks the cassette up.
VCRAddon_request_MetadataFirst(req, m, fs, ds) ==
    LET md == FlowMetadata(req)
        found == lookup(fs, ds, md.vcr_domain, md.vcr_matching_key)
    IN  IF m = "record" THEN AddonEffect("let_through", 0, 0, None, Some(md), FALSE)
        ELSE IF found.raised THEN AddonEffect("raised", 0, 0, None, Some(md), FALSE)
        ELSE IF ~IsNone(found.value)
        THEN LET cassette == The(found.value)
             IN  AddonEffect("hit", 1, 0,
                             Some([ status_code |-> cassette.response.status_code,
                                    headers |-> cassette.response.headers,
                                    content |-> forward_decode_body(cassette.response) ]),
                             Some(md), FALSE)
        ELSE IF m = "replay"
        THEN AddonEffect("miss", 0, 1,
                         Some([ status_code |-> 404,
                                headers |-> <<<<"content-type", "application/json">>>>,
                                content |-> <<"{", "error", "no matching cassette found", "}">> ]),
                         Some(md), FALSE)
        ELSE AddonEffect("spy_miss", 0, 1, None, Some(md), TRUE)

\* VCRAddon.request after stats_total += 1: RECORD lets the flow through with
\* its metadata; REPLAY and SPY look the cassette up and answer a hit from
\* it; a REPLAY miss is answered 404; a SPY miss goes upstream, marked.
VCRAddon_request(req, m, fs, ds) ==
    LET md == FlowMetadata(req)
        found == lookup(fs, ds, md.vcr_domain, md.vcr_matching_key)
    IN  IF m = "record" THEN AddonEffect("let_through", 0, 0, None, Some(md), FALSE)
        ELSE IF found.raised THEN AddonEffect("raised", 0, 0, None, None, FALSE)
        ELSE IF ~IsNone(found.value)
        THEN LET cassette == The(found.value)
             IN  AddonEffect("hit", 1, 0,
                             Some([ status_code |-> cassette.response.status_code,
                                    headers |-> cassette.response.headers,
                                    content |-> forward_decode_body(cassette.response) ]),
                             None, FALSE)
        ELSE IF m = "replay"
        THEN AddonEffect("miss", 0, 1,
                         Some([ status_code |-> 404,
                                headers |-> <<<<"content-type", "application/json">>>>,
                                content |-> <<"{", "error", "no matching cassette found", "}">> ]),
                         None, FALSE)
        ELSE AddonEffect("spy_miss", 0, 1, None, Some(md), TRUE)

\* The cassette response() builds from the flow.
FlowCassette(flow) ==
    LET md == The(flow.metadata)
        resp == The(flow.response)
    IN  [ meta |-> [ target |-> [scheme |-> flow.request.scheme, host |-> md.vcr_domain,
                                 trailing |-> ""],
                     domain |-> md.vcr_domain,
                     vcr_proxy_version |-> "1.0.0" ],
          request |-> md.vcr_recorded_req,
          response |-> build_recorded_response_from_raw(resp.status_code, resp.headers,
                                                        resp.content) ]

\* A response() that leaves flow.id in _pending_record.
VCRAddon_response_KeepsPending(flow, id, m, pending, fs, ds, rts) ==
    LET should_record == m = "record" \/ (m = "spy" /\ id \in pending)
        same == [ recorded |-> 0, pending |-> pending,
                  files |-> fs, dirs |-> ds, routes |-> rts ]
    IN  IF ~should_record THEN [outcome |-> "skipped"] @@ same
        ELSE IF IsNone(flow.metadata)
        THEN [outcome |-> "no_metadata"] @@ same
        ELSE LET md == The(flow.metadata)
                 cassette == FlowCassette(flow)
             IN  [ outcome |-> "recorded", recorded |-> 1, pending |-> pending,
                   files |-> SaveFiles(fs, cassette, md.vcr_matching_key),
                   dirs |-> RouteDirs(SaveDirs(ds, cassette), md.vcr_domain),
                   routes |-> auto_generate(rts, md.vcr_domain, md.vcr_recorded_req) ]

\* VCRAddon.response: should_record is computed from the mode of this moment;
\* flow.id is discarded only past that test; without the three metadata
\* entries nothing is saved.
VCRAddon_response(flow, id, m, pending, fs, ds, rts) ==
    LET should_record == m = "record" \/ (m = "spy" /\ id \in pending)
        same == [ recorded |-> 0, files |-> fs, dirs |-> ds, routes |-> rts ]
    IN  IF ~should_record THEN [outcome |-> "skipped", pending |-> pending] @@ same
        ELSE IF IsNone(flow.metadata)
        THEN [outcome |-> "no_metadata", pending |-> pending \ {id}] @@ same
        ELSE LET md == The(flow.metadata)
                 cassette == FlowCassette(flow)
             IN  [ outcome |-> "recorded", recorded |-> 1, pending |-> pending \ {id},
                   files |-> SaveFiles(fs, cassette, md.vcr_matching_key),
                   dirs |-> RouteDirs(SaveDirs(ds, cassette), md.vcr_domain),
                   routes |-> auto_generate(rts, md.vcr_domain, md.vcr_recorded_req) ]

\* Bound of the model: the flows mitmproxy hands to request().
MaxFlows == 2

\* POST http://t/l with a JSON body.
FlowA ==
    [ scheme |-> "http", host |-> "t", method |-> "POST", path |-> <<"/", "l">>,
      query_string |-> <<>>, headers |-> <<JsonCT, <<"authorization", "tokA">>>>,
      body |-> Some(<<"{", "login", "x", "action", "go", "}">>) ]

\* FlowA written differently, of the same matching key: a Date header, the
\* body's keys in another order.
FlowAVariant ==
    [ FlowA EXCEPT !.headers = <<<<"date", "x">>, JsonCT, <<"authorization", "tokA">>>>,
                   !.body = Some(<<"{", "action", "go", "login", "x", "}">>) ]

FlowRequests == {FlowA, FlowAVariant}

\* The last hook of the addon: request() or response() of flow id in mode m,
\* what it did, what request() had done with the flow, and flow.response.
AddonEvent(op, id, m, outcome, answered, request, response) ==
    [ op |-> op, id |-> id, mode |-> m, outcome |-> outcome, answered |-> answered,
      request |-> request, response |-> response ]

InitAddon ==
    /\ mode \in Modes
    /\ stats_total = 0
    /\ stats_hits = 0
    /\ stats_misses = 0
    /\ stats_recorded = 0
    /\ stats_errors = 0
    /\ files = <<>>
    /\ dirs = {}
    /\ routes = <<>>
    /\ inflight = <<>>
    /\ last = AddonEvent("init", 0, "", "", "", None, None)
    /\ origin = <<>>
    /\ taken = NoPaths
    /\ _pending_record = {}

\* VCRAddon.request(flow): the flow is then between request() and response();
\* inflight holds it with its metadata, flow.response if request() set it and
\* what request() did.
AddonRequest(req) ==
    /\ stats_total < MaxFlows
    /\ LET e == VCRAddon_request(req, mode, files, dirs)
           id == stats_total + 1
       IN  /\ stats_total' = stats_total + 1
           /\ stats_hits' = stats_hits + e.hits
           /\ stats_misses' = stats_misses + e.misses
           /\ _pending_record' = IF e.pending THEN _pending_record \cup {id}
                                 ELSE _pending_record
           /\ inflight' = (id :> [ request |-> req, metadata |-> e.metadata,
                                   response |-> e.response, answered |-> e.outcome ])
                              @@ inflight
           /\ last' = AddonEvent("request", id, mode, e.outcome, e.outcome, Some(req),
                                 e.response)
    /\ UNCHANGED <<mode, stats_recorded, stats_errors, store, origin, taken>>

\* The state after response() of the flow: the store, stats_recorded,
\* _pending_record and the event.
Responded(flow, id, answered) ==
    LET e == VCRAddon_response(flow, id, mode, _pending_record, files, dirs, routes)
    IN  /\ stats_recorded' = stats_recorded + e.recorded
        /\ _pending_record' = e.pending
        /\ files' = e.files
        /\ dirs' = e.dirs
        /\ routes' = e.routes
        /\ last' = AddonEvent("response", id, mode, e.outcome, answered,
                              Some(flow.request), flow.response)

\* VCRAddon.response(flow) for a flow that went through request(): the
\* response is the one request() made, or else the upstream's.
AddonResponse(id, upstream) ==
    /\ id \in DOMAIN inflight
    /\ LET seen == inflight[id]
           flow == [ request |-> seen.request, metadata |-> seen.metadata,
                     response |-> IF IsNone(seen.response) THEN Some(upstream)
                                  ELSE seen.response ]
       IN  Responded(flow, id, seen.answered)
    /\ inflight' = Without(inflight, {id})
    /\ UNCHANGED <<mode, stats_total, stats_hits, stats_misses, stats_errors, origin, taken>>

\* VCRAddon.response(flow) for a flow request() never saw: no metadata.
AddonResponseUnseen(req, upstream) ==
    /\ Responded([request |-> req, metadata |-> None, response |-> Some(upstream)],
                 0, "unseen")
    /\ UNCHANGED <<mode, stats_total, stats_hits, stats_misses, stats_errors, inflight,
                   origin, taken>>

NextAddon ==
    \/ \E req \in FlowRequests : AddonRequest(req)
    \/ \E id \in DOMAIN inflight : \E upstream \in Responses : AddonResponse(id, upstream)
    \/ AddonResponseUnseen(FlowA, UpJson)
    \/ \E m \in Modes : SetMode(m)

SpecAddon == InitAddon /\ [][NextAddon]_vars


\* --------------------------------- a lookup beside the deletes of another thread

\* lookup up to its read: None when the directory or the file is not there
\* (storage.py 46-53), else the path it goes on to read.
lookup_exists(fs, ds, domain, matching_key) ==
    LET filepath == FilePath(domain, _cassette_filename(matching_key))
    IN  IF _domain_dir(domain) \notin ds \/ filepath \notin DOMAIN fs THEN None
        ELSE Some(filepath)

\* filepath.read_text() and model_validate_json (storage.py 55) on the files
\* of that moment: read_text raises FileNotFoundError when the file is gone,
\* model_validate_json raises on a text that is no cassette.
lookup_read(fs, filepath) ==
    IF filepath \notin DOMAIN fs THEN [raised |-> TRUE, value |-> None]
    ELSE IF IsNone(model_validate_json(fs[filepath])) THEN [raised |-> TRUE, value |-> None]
    ELSE [raised |-> FALSE, value |-> model_validate_json(fs[filepath])]

\* The lookup of one thread, up to where it returns None or is about to read
\* the file; the admin thread, or another dispatcher on the same
\* cassettes_dir, may run before the read.
LookupChecked(domain, matching_key) ==
    /\ last.n < MaxOps
    /\ inflight = <<>>
    /\ LET checked == lookup_exists(files, dirs, domain, matching_key)
           filename == _cassette_filename(matching_key)
       IN  IF IsNone(checked)
           THEN /\ last' = StoreEvent("lookup", last.n + 1, domain, filename, None, FALSE, 0)
                /\ inflight' = inflight
           ELSE /\ last' = StoreEvent("lookup_checked", last.n + 1, domain, filename, None,
                                      FALSE, 0)
                /\ inflight' = (1 :> [ domain |-> domain, filename |-> filename,
                                       filepath |-> The(checked) ])
    /\ UNCHANGED <<mode, stats, store, origin, taken, _pending_record>>

\* The read of the suspended lookup: it returns the cassette, or the
\* exception of read_text leaves lookup.
LookupRead ==
    /\ 1 \in DOMAIN inflight
    /\ LET l == inflight[1]
           r == lookup_read(files, l.filepath)
       IN  last' = StoreEvent(IF r.raised THEN "lookup_error" ELSE "lookup", last.n,
                              l.domain, l.filename, r.value, FALSE, 0)
    /\ inflight' = <<>>
    /\ UNCHANGED <<mode, stats, store, origin, taken, _pending_record>>

\* One thread looks cassettes up while others save and delete.
NextRace ==
    \/ \E c \in StoreCassettes : \E k \in StoreKeys : Save(c, k)
    \/ \E d \in StoreDomains : \E k \in StoreKeys : LookupChecked(d, k)
    \/ LookupRead
    \/ \E d \in StoreDomains : \E k \in StoreKeys : StoreDelete(d, _cassette_filename(k))
    \/ StoreDeleteAll

SpecRace == InitStore /\ [][NextRace]_vars


\* ------------------------------------- concurrent SPY requests of one key

\* Bound of the model: the calls of handle in SpecSpy.
MaxSpy == 3

\* Two requests of one matching key.
SpyRequests == {ReqA, ReqAVariant}

\* The handler in SPY mode on an empty store.
InitSpy == Init /\ mode = "spy"

\* A call of handle while others may be suspended in forward_request.
SpyRequest(r) ==
    /\ stats_total < MaxSpy
    /\ Dispatch(r)

\* The upstream answers the suspended call id.
UpstreamAnswered(id, u) == Forwarded(id, [kind |-> "response", response |-> Some(u)])

NextSpy ==
    \/ \E r \in SpyRequests : SpyRequest(r)
    \/ \E id \in DOMAIN inflight : \E u \in Responses : UpstreamAnswered(id, u)

SpecSpy == InitSpy /\ [][NextSpy]_vars

\* ------------------------------------------------------ the steps of handle

\* The cassette a file's text is the dump of.
CassetteIn(text) == The(model_validate_json(text))

\* This step is a call of handle: line 153 counts it.
Called == stats_total' = stats_total + 1

\* This step is the return of forward_request to a suspended call of handle.
Resumed == stats_total' = stats_total /\ DOMAIN inflight' # DOMAIN inflight

\* The request of the call this step belongs to, and its locals.
StepRequest == The(last'.request)

StepLocals == The(LocalsOf[StepRequest])

\* This step is a call of handle whose path matches a prefix of Targets.
CalledResolvable == Called /\ ~IsNone(_resolve_target(StepRequest.path, Targets))

\* The body of the JSON error {"error": msg}.
ErrorBody(msg) == <<"{", "error", msg, "}">>

\* This step's call returned status with the JSON error msg.
ReturnedError(status, msg) ==
    /\ ~IsNone(last'.result)
    /\ The(last'.result).status = status
    /\ The(last'.result).body = ErrorBody(msg)

\* The cassette file of the key of this step's request.
StepFile == FilePath(StepLocals.domain, _cassette_filename(StepLocals.matching_key))

\* ------------------------------------------------------------- C7: no target

\* C7: a call of handle whose path matches no configured prefix returns 502
\* with the error 'no target configured for path', increments stats_total and
\* stats_errors by 1 each, and in every mode does nothing else: no call is
\* suspended in forward_request, and the store, the mode and stats_hits,
\* stats_misses, stats_recorded are unchanged.
C7_NoTarget ==
    [][ (Called /\ IsNone(_resolve_target(StepRequest.path, Targets)))
            => /\ ReturnedError(502, "no target configured for path")
               /\ stats_errors' = stats_errors + 1
               /\ UNCHANGED <<stats_hits, stats_misses, stats_recorded,
                              files, dirs, routes, inflight, mode>> ]_vars

\* A call without target has returned its 502 in REPLAY mode, on a store that
\* holds a cassette.
C7_Witness ==
    /\ last.op = "handle"
    /\ last.mode = "replay"
    /\ last.request = Some(ReqNoTarget)
    /\ last.result = Some(ErrorResult(502, "no target configured for path"))
    /\ stats_errors = 1
    /\ DOMAIN files # {}

\* ---------------------------------------------------------------- C2: REPLAY

C3_ReplayFrame ==
    [][ (CalledResolvable /\ mode = "replay")
            => /\ last'.outcome \in {"hit", "miss", "raised"}
               /\ UNCHANGED <<files, dirs, routes, stats_recorded, stats_errors, inflight>>
               /\ \A id \in DOMAIN inflight' : inflight'[id].mode # "replay" ]_vars

\* A REPLAY miss has returned after the one recording of the run, whose
\* cassette file was deleted.
C3_Witness ==
    /\ last.op = "handle"
    /\ last.mode = "replay"
    /\ last.outcome = "miss"
    /\ stats_misses = 1
    /\ stats_recorded = 1
    /\ stats_errors = 0

\* ---------------------------------------------------------------- C4: RECORD

\* The outcome of forward_request in this step's call.
StepUpstream == The(last'.upstream)

\* This step resumes a call with the answer of the upstream.
Answered == Resumed /\ StepUpstream.kind = "response"

\* This step resumes a call with a failure of forward_request.
Failed == Resumed /\ StepUpstream.kind # "response"

\* C4: in RECORD mode a call of handle with a resolvable target is suspended
\* in forward_request, whether or not a cassette of its key exists, with
\* stats_hits and stats_misses unchanged; and when the upstream answers a call
\* dispatched in RECORD mode, the cassette of the request and of the answer is
\* in the file of the request's key, the route files are those auto_generate
\* leaves, stats_recorded is incremented by 1, stats_hits and stats_misses are
\* unchanged, and handle returns the upstream's status, headers and body.
\* (Saving, auto_generate and the increment run without suspension, in this
\* order, as one step.)
C4_Record ==
    [][ /\ (CalledResolvable /\ mode = "record")
            => /\ last'.outcome = "forward"
               /\ IsNone(last'.result)
               /\ DOMAIN inflight' = DOMAIN inflight \cup {last'.id}
               /\ last'.id \notin DOMAIN inflight
               /\ UNCHANGED <<stats_hits, stats_misses>>
        /\ (Answered /\ last'.mode = "record")
            => LET up == The(StepUpstream.response)
                   locals == inflight[last'.id]
               IN  /\ StepFile \in DOMAIN files'
                   /\ IsCassetteText(files'[StepFile])
                   /\ CassetteIn(files'[StepFile]).request = locals.recorded_req
                   /\ CassetteIn(files'[StepFile]).response.status_code = up.status_code
                   /\ CassetteIn(files'[StepFile]).response.headers = up.headers
                   /\ \A f \in DOMAIN files \ {StepFile} :
                          f \in DOMAIN files' /\ files'[f] = files[f]
                   /\ routes' = auto_generate(routes, locals.domain, locals.recorded_req)
                   /\ _config_path(locals.domain, locals.recorded_req.method,
                                   locals.recorded_req.path) \in DOMAIN routes'
                   /\ stats_recorded' = stats_recorded + 1
                   /\ UNCHANGED <<stats_hits, stats_misses, stats_errors>>
                   /\ ~IsNone(last'.result)
                   /\ The(last'.result).status = up.status_code
                   /\ The(last'.result).headers = up.headers
                   /\ The(last'.result).body = up.content ]_vars

\* The second call of handle in RECORD mode has recorded UpBinary over the
\* cassette the first call had recorded for the same key.
C4_Witness ==
    /\ last.op = "handle"
    /\ last.mode = "record"
    /\ last.outcome = "recorded"
    /\ last.id = 2
    /\ stats_recorded = 2
    /\ stats_hits = 0
    /\ stats_misses = 0
    /\ Cardinality(DOMAIN files) = 1
    /\ \A f \in DOMAIN origin : origin[f].response = UpBinary
    /\ \A f \in DOMAIN files : f \in DOMAIN origin
    /\ last.result = Some([ status |-> UpBinary.status_code, headers |-> UpBinary.headers,
                            body |-> UpBinary.content ])

\* ------------------------------------------------------------------- C5: SPY

\* The file of the key of the request of last.
LastFile ==
    FilePath(The(LocalsOf[The(last.request)]).domain,
             _cassette_filename(The(LocalsOf[The(last.request)]).matching_key))

\* The first request of a SPY run has been recorded on a miss and nothing has
\* touched its cassette since: one call counted, one miss, one recording.
SpyFirstDone ==
    /\ last.op = "handle"
    /\ last.mode = "spy"
    /\ last.outcome = "recorded"
    /\ stats = <<1, 0, 1, 1, 0>>
    /\ inflight = <<>>
    /\ LastFile \in DOMAIN origin

\* C5: in SPY mode, a call of handle with a resolvable target whose lookup
\* returns None increments stats_misses by 1 and is suspended in
\* forward_request, and the answer of the upstream to a call dispatched in SPY
\* mode increments stats_recorded by 1; a second call in SPY mode with the key
\* of the first, after the first was recorded on a miss, is served from the
\* cassette with the recorded status, headers and decoded body, increments
\* stats_hits by 1, is not forwarded and leaves the store alone, and the
\* counters are then total 2, hits 1, misses 1, recorded 1, errors 0.
C5_Spy ==
    [][ /\ ( /\ CalledResolvable
             /\ mode = "spy"
             /\ ~lookup(files, dirs, StepLocals.domain, StepLocals.matching_key).raised
             /\ IsNone(lookup(files, dirs, StepLocals.domain, StepLocals.matching_key).value) )
            => /\ stats_misses' = stats_misses + 1
               /\ DOMAIN inflight' = DOMAIN inflight \cup {last'.id}
               /\ last'.id \notin DOMAIN inflight
               /\ UNCHANGED <<stats_hits, stats_recorded, stats_errors>>
        /\ (Answered /\ last'.mode = "spy")
            => /\ stats_recorded' = stats_recorded + 1
               /\ UNCHANGED <<stats_hits, stats_misses, stats_errors>>
               /\ StepFile \in DOMAIN files'
        /\ ( /\ SpyFirstDone
             /\ CalledResolvable
             /\ mode = "spy"
             /\ StepLocals.matching_key = The(LocalsOf[The(last.request)]).matching_key )
            => /\ stats' = <<2, 1, 1, 1, 0>>
               /\ UNCHANGED <<files, dirs, routes, inflight>>
               /\ ~IsNone(last'.result)
               /\ The(last'.result).status = CassetteIn(files[StepFile]).response.status_code
               /\ The(last'.result).headers = CassetteIn(files[StepFile]).response.headers
               /\ The(last'.result).body = _decode_body(CassetteIn(files[StepFile]).response) ]_vars

\* Two sequential calls in SPY mode with one key, written differently: ReqA
\* was recorded on a miss and ReqAVariant was then served from its cassette.
C5_Witness ==
    /\ last.op = "handle"
    /\ last.mode = "spy"
    /\ last.outcome = "hit"
    /\ last.request = Some(ReqAVariant)
    /\ stats = <<2, 1, 1, 1, 0>>
    /\ inflight = <<>>
    /\ \E f \in DOMAIN origin : CassetteIn(files[f]).request.path = <<"/", "l">>

\* ---------------------------------------------------- C6: forwarding fails

\* C6: when forward_request fails in a call dispatched in RECORD mode or on a
\* SPY miss, handle returns 504 with the error 'target timeout' on a timeout
\* and 502 with the error 'target unreachable' on a connection failure; in
\* both cases stats_errors is incremented by 1, stats_recorded and stats_hits
\* are unchanged, and the cassette files, the directories and the route-config
\* files are unchanged.
C6_ForwardFails ==
    [][ Failed
            => /\ last'.mode \in {"record", "spy"}
               /\ StepUpstream.kind = "timeout" => ReturnedError(504, "target timeout")
               /\ StepUpstream.kind = "connect_error"
                      => ReturnedError(502, "target unreachable")
               /\ StepUpstream.kind \in {"timeout", "connect_error"}
               /\ stats_errors' = stats_errors + 1
               /\ UNCHANGED <<stats_recorded, stats_hits, files, dirs, routes>> ]_vars

\* A SPY miss has timed out: the call was counted as a miss and as an error,
\* and no cassette file and no route-config file exists.
C6_Witness ==
    /\ last.op = "handle"
    /\ last.mode = "spy"
    /\ last.upstream = Some([kind |-> "timeout", response |-> None])
    /\ last.result = Some(ErrorResult(504, "target timeout"))
    /\ stats_errors = 1
    /\ stats_misses = 1
    /\ stats_recorded = 0
    /\ files = <<>>
    /\ routes = <<>>

\* --------------------------------------------------- C1: record, then replay

RECURSIVE ValidUtf8(_)
\* The bytes are UTF-8: ASCII, or the three bytes of U+FFFD in a row.
ValidUtf8(bs) ==
    IF bs = <<>> THEN TRUE
    ELSE IF Len(bs) >= 3 /\ bs[1] = "xEF" /\ bs[2] = "xBF" /\ bs[3] = "xBD"
         THEN ValidUtf8(SubSeq(bs, 4, Len(bs)))
    ELSE ~IsHighByte(bs[1]) /\ ValidUtf8(Tail(bs))

\* This step is a call of handle in REPLAY mode for a key whose cassette a
\* call of handle wrote, and nothing has deleted or rewritten it since.
ReplayOfRecorded ==
    /\ CalledResolvable
    /\ mode = "replay"
    /\ StepFile \in DOMAIN origin

BodyObject(r) == The(JsonLoads(The(r.body)))

\* Requests a and b are alike but for their bodies, JSON objects of the same
\* fields.
SameButBody(a, b) ==
    /\ a.method = b.method
    /\ a.path = b.path
    /\ a.query_string = b.query_string
    /\ a.headers = b.headers
    /\ ~IsNone(a.body) /\ ~IsNone(b.body)
    /\ ~IsNone(JsonLoads(The(a.body))) /\ ~IsNone(JsonLoads(The(b.body)))
    /\ Keys(BodyObject(a)) = Keys(BodyObject(b))

\* The top-level body fields whose values differ between a and b.
DifferingFields(a, b) ==
    {k \in Keys(BodyObject(a)) : DictGet(BodyObject(a), k) # DictGet(BodyObject(b), k)}

\* C8: with a route override whose ignore.body_fields lists F on disk when a
\* request is recorded (in RECORD mode or on a SPY miss), a call of handle in
\* REPLAY or SPY mode for a request that differs from the recorded one only in
\* the values of body fields in F is a hit (stats_hits + 1, stats_misses
\* unchanged), and a call in REPLAY mode for a request that differs from every
\* recorded one in a field outside the route's F is a miss answered with 404.
C8_RouteIgnore ==
    [][ /\ \A f \in DOMAIN origin :
            ( /\ CalledResolvable
              /\ mode \in {"replay", "spy"}
              /\ origin[f].ignore.body_fields # <<>>
              /\ SameButBody(origin[f].request, StepRequest)
              /\ DifferingFields(origin[f].request, StepRequest) # {}
              /\ DifferingFields(origin[f].request, StepRequest)
                     \subseteq SeqToSet(origin[f].ignore.body_fields) )
                => /\ last'.outcome = "hit"
                   /\ stats_hits' = stats_hits + 1
                   /\ stats_misses' = stats_misses
        /\ ( /\ CalledResolvable
             /\ mode = "replay"
             /\ DOMAIN origin # {}
             /\ \A f \in DOMAIN files : f \in DOMAIN origin
             /\ \A f \in DOMAIN origin :
                   /\ origin[f].ignore.body_fields # <<>>
                   /\ SameButBody(origin[f].request, StepRequest)
                   /\ ~(DifferingFields(origin[f].request, StepRequest)
                            \subseteq SeqToSet(origin[f].ignore.body_fields)) )
                => /\ ReturnedError(404, "no matching cassette found")
                   /\ stats_misses' = stats_misses + 1 ]_vars

\* --------------------------------------------------- C9: sensitive headers

\* Every sensitive header of the dict holds the placeholder.
Redacted(headers) ==
    \A i \in DOMAIN headers :
        Lower(headers[i][1]) \in SensitiveHeaders => headers[i][2] = REDACTED

\* C9: in every reachable state, every cassette file holds the placeholder
\* '[REDACTED]' as the value of every sensitive header of its request and of
\* its response, and the call that recorded last returned the upstream's
\* status, headers and body as they came.
C9_Redaction ==
    /\ \A f \in DOMAIN files :
          IsCassetteText(files[f])
              => /\ Redacted(CassetteIn(files[f]).request.headers)
                 /\ Redacted(CassetteIn(files[f]).response.headers)
    /\ last.outcome = "recorded"
          => /\ The(last.result).status = The(The(last.upstream).response).status_code
             /\ The(last.result).headers = The(The(last.upstream).response).headers
             /\ The(last.result).body = The(The(last.upstream).response).content

\* ------------------------------------- C10: sensitive headers and the key

\* Requests a and b are alike but for the value of one sensitive header.
DifferOnlyInSensitive(a, b) ==
    /\ a.method = b.method
    /\ a.path = b.path
    /\ a.query_string = b.query_string
    /\ a.body = b.body
    /\ a.headers # b.headers
    /\ DOMAIN a.headers = DOMAIN b.headers
    /\ \A i \in DOMAIN a.headers :
          /\ a.headers[i][1] = b.headers[i][1]
          /\ a.headers[i][2] # b.headers[i][2]
                 => Lower(a.headers[i][1]) \in SensitiveHeaders

\* C10: two requests of the dispatcher that differ only in the value of a
\* sensitive header have equal matching keys, and a call of handle in REPLAY
\* mode for one of them is a hit on the cassette recorded for the other
\* (stats_hits + 1).
C10_SensitiveKey ==
    [][ \A f \in DOMAIN origin :
            ( /\ CalledResolvable
              /\ mode = "replay"
              /\ DifferOnlyInSensitive(origin[f].request, StepRequest) )
                => /\ StepLocals.matching_key
                          = The(LocalsOf[origin[f].request]).matching_key
                   /\ last'.outcome = "hit"
                   /\ stats_hits' = stats_hits + 1 ]_vars

\* ------------------------------------------------- C11: the store round trip

\* C11: in every state of the store, for every domain d and key k, lookup(d, k)
\* does not raise and returns a cassette equal to the last one saved to the
\* file of (d, k) when a save wrote that file and no delete has removed it
\* since, and None when no save wrote that file, a delete removed it, or the
\* domain directory is absent; the last lookup made returned just that.
C11_RoundTrip ==
    /\ \A d \in StoreDomains : \A k \in StoreKeys :
          LET f == FilePath(d, _cassette_filename(k))
              got == lookup(files, dirs, d, k)
          IN  /\ ~got.raised
              /\ f \in DOMAIN origin => got.value = Some(origin[f])
              /\ f \notin DOMAIN origin => got.value = None
              /\ _domain_dir(d) \notin dirs => got.value = None
    /\ last.op = "lookup"
          => LET f == FilePath(last.domain, last.filename)
             IN  last.found = IF f \in DOMAIN origin THEN Some(origin[f]) ELSE None

\* A lookup in domain u has returned the base64 cassette of UpBinary saved
\* there, while the same key in domain t holds another cassette.
C11_Witness ==
    /\ last.op = "lookup"
    /\ last.domain = "u"
    /\ ~IsNone(last.found)
    /\ The(last.found).meta.domain = "u"
    /\ The(last.found).response = _build_recorded_response(UpBinary)
    /\ FilePath("t", last.filename) \in DOMAIN files
    /\ files[FilePath("t", last.filename)] # files[FilePath("u", last.filename)]

\* -------------------------------------------------------------- C12: delete

\* This step is a call on the store.
StoreCalled == last'.n = last.n + 1

\* C12: delete(d, id) returns true exactly when the file of (d, id) exists;
\* after it the file does not exist, lookup of the keys of that file returns
\* None, every other cassette file is what it was, and a call repeated right
\* after with the same arguments returns false.  (delete has no path that
\* raises.)
C12_Delete ==
    [][ (StoreCalled /\ last'.op = "delete")
            => LET f == FilePath(last'.domain, last'.filename)
               IN  /\ last'.ok = (f \in DOMAIN files)
                   /\ f \notin DOMAIN files'
                   /\ DOMAIN files' = DOMAIN files \ {f}
                   /\ \A g \in DOMAIN files' : files'[g] = files[g]
                   /\ \A k \in StoreKeys :
                          _cassette_filename(k) = last'.filename
                              => lookup(files', dirs', last'.domain, k)
                                     = [raised |-> FALSE, value |-> None]
                   /\ ( /\ last.op = "delete"
                        /\ last.domain = last'.domain
                        /\ last.filename = last'.filename ) => ~last'.ok ]_vars

\* The third call deleted an existing cassette and returned true, and the
\* cassette of the other domain is still there.
C12_Witness ==
    /\ last.op = "delete"
    /\ last.ok
    /\ last.n = 3
    /\ last.domain = "t"
    /\ DOMAIN files = {FilePath("u", last.filename)}

\* --------------------------------------------- C13: delete_domain, delete_all

\* C13: delete_domain(d) returns the number of files list_cassettes(d) held,
\* leaves list_cassettes(d) empty and every file of another domain as it was,
\* and returns 0 when the domain directory is absent; delete_all() returns the
\* number of files list_all() held, leaves list_all() empty, and returns 0
\* when cassettes_dir is absent.
C13_DeleteMany ==
    [][ /\ (StoreCalled /\ last'.op = "delete_domain")
            => /\ last'.count = Cardinality(list_cassettes(files, dirs, last'.domain))
               /\ list_cassettes(files', dirs', last'.domain) = {}
               /\ \A g \in DOMAIN files :
                      g[1] # last'.domain => g \in DOMAIN files' /\ files'[g] = files[g]
               /\ _domain_dir(last'.domain) \notin dirs
                      => last'.count = 0 /\ files' = files
        /\ (StoreCalled /\ last'.op = "delete_all")
            => /\ last'.count = Cardinality(list_all(files, dirs))
               /\ list_all(files', dirs') = {}
               /\ files' = <<>>
               /\ <<>> \notin dirs => last'.count = 0 ]_vars

\* delete_domain("t") has removed the two cassettes of domain t and returned
\* 2, and the cassette of domain u is still there.
C13_Witness ==
    /\ last.op = "delete_domain"
    /\ last.domain = "t"
    /\ last.count = 2
    /\ Cardinality(DOMAIN files) = 1
    /\ \A g \in DOMAIN files : g[1] = "u"

\* ------------------------------------------ C14: route configs only grow

\* What the route file held before the first auto_generate: its matched
\* lists and its ignore lists, empty when there was no file.
MatchedBefore(before) ==
    IF IsNone(before) THEN [body_fields |-> <<>>, query_params |-> <<>>, headers |-> <<>>]
    ELSE The(before).matched

IgnoreBefore(before) == IF IsNone(before) THEN EmptyIgnore ELSE The(before).ignore

\* Every route file auto_generate has written holds, in each matched list, the
\* sorted union of what the list held before the first call and of the names
\* observed since, and the ignore lists it held before the first call.
RoutesMerged ==
    \A p \in DOMAIN origin :
        /\ p \in DOMAIN routes
        /\ ~IsNone(routes[p])
        /\ \A list \in {"body_fields", "query_params", "headers"} :
              The(routes[p]).matched[list]
                  = SetToSortedSeq(SeqToSet(MatchedBefore(origin[p].before)[list])
                                       \cup origin[p].seen[list])
        /\ The(routes[p]).ignore = IgnoreBefore(origin[p].before)

\* C14: after any sequence of auto_generate calls for a route, each matched
\* list of its file is the sorted union of what the list held before the
\* first call and of the names the calls observed, and the ignore lists are
\* those the file held before the first call (empty when there was no file);
\* and no step removes a route file, a name of a matched list, or changes the
\* ignore lists of an existing file.
C14_NeverDowngraded ==
    [][ /\ RoutesMerged'
        /\ \A p \in DOMAIN routes :
              /\ p \in DOMAIN routes'
              /\ ~IsNone(routes'[p])
              /\ \A list \in {"body_fields", "query_params", "headers"} :
                    SeqToSet(The(routes[p]).matched[list])
                        \subseteq SeqToSet(The(routes'[p]).matched[list])
              /\ The(routes'[p]).ignore = The(routes[p]).ignore ]_vars

\* Two different requests of POST /l were merged into an override a user had
\* written with a matched body field and an ignored one: the file lists the
\* user's field z with the fields of both requests, and still ignores login.
C14_Witness ==
    \E p \in DOMAIN origin :
        /\ ~IsNone(origin[p].before)
        /\ The(routes[p]).matched.body_fields = <<"action", "login", "q", "z">>
        /\ The(routes[p]).matched.query_params = <<"page">>
        /\ The(routes[p]).matched.headers = <<"authorization", "content-type">>
        /\ The(routes[p]).ignore.body_fields = <<"login">>

\* ------------------------------------------------------- C15: mode switching

\* C15: the mode is one attribute that handle reads once, at dispatch, and
\* that Admin writes. A call of handle with a resolvable target takes the
\* branch of the mode as last written: suspended in forward_request in RECORD
\* mode; ended within the call as hit, miss or the error of lookup in REPLAY
\* mode; a hit or a suspension in SPY mode. A step that changes the mode
\* leaves the suspended calls, the store and the counters alone, and when the
\* upstream answers a suspended call, whatever the mode is by then, the
\* cassette is in the file of the request's key, stats_recorded is incremented
\* by 1 and the call returns the upstream's status and body: a call dispatched
\* in RECORD mode still persists after a switch to REPLAY.
C15_ModeSwitch ==
    [][ /\ CalledResolvable
            => /\ last'.mode = mode
               /\ mode = "record" => last'.id \in DOMAIN inflight'
               /\ mode = "replay" => /\ inflight' = inflight
                                     /\ last'.outcome \in {"hit", "miss", "raised"}
               /\ mode = "spy" => \/ last'.outcome \in {"hit", "raised"}
                                  \/ last'.id \in DOMAIN inflight'
               /\ last'.id \in DOMAIN inflight' => inflight'[last'.id].mode = mode
        /\ mode' # mode
            => UNCHANGED <<inflight, files, dirs, routes, last, stats_total,
                           stats_hits, stats_misses, stats_recorded, stats_errors>>
        /\ Answered
            => LET up == The(StepUpstream.response)
               IN  /\ last'.mode = inflight[last'.id].mode
                   /\ StepFile \in DOMAIN files'
                   /\ IsCassetteText(files'[StepFile])
                   /\ CassetteIn(files'[StepFile]).request = inflight[last'.id].recorded_req
                   /\ CassetteIn(files'[StepFile]).response.status_code = up.status_code
                   /\ stats_recorded' = stats_recorded + 1
                   /\ last'.outcome = "recorded"
                   /\ ~IsNone(last'.result)
                   /\ The(last'.result).status = up.status_code
                   /\ The(last'.result).body = up.content ]_vars

\* The first call, dispatched in RECORD mode, has recorded after the mode was
\* switched to REPLAY and the second call had missed in REPLAY mode.
C15_Witness ==
    /\ last.op = "handle"
    /\ last.id = 1
    /\ last.mode = "record"
    /\ last.outcome = "recorded"
    /\ mode = "replay"
    /\ stats_total = 2
    /\ stats_misses = 1
    /\ stats_recorded = 1
    /\ stats_errors = 0
    /\ inflight = << >>
    /\ LastFile \in DOMAIN files

\* ------------------------------------------------- C16: the counters per call

\* This step starts a call of handle: its event carries the id of a call that
\* was neither suspended nor the one of the event before.
Started == last'.id # last.id /\ last'.id \notin DOMAIN inflight

\* C16: every call of handle increments stats_total by exactly 1, at its
\* start and whatever the mode and the outcome, and nothing else changes
\* stats_total. Per call, stats_errors is disjoint from stats_hits and from
\* stats_recorded, and no call increments both stats_hits and stats_recorded:
\* the step that starts a call leaves stats_recorded alone and increments at
\* most one of stats_hits and stats_errors, and then the call has returned;
\* a call suspended in forward_request has incremented neither; and the step
\* that resumes it leaves stats_hits alone and increments exactly one of
\* stats_errors and stats_recorded, by 1.
C16_Counters ==
    [][ /\ Started => stats_total' = stats_total + 1
        /\ ~Started => stats_total' = stats_total
        /\ Started
            => /\ stats_recorded' = stats_recorded
               /\ \/ UNCHANGED <<stats_hits, stats_errors>>
                  \/ /\ stats_hits' = stats_hits + 1
                     /\ stats_errors' = stats_errors
                     /\ last'.id \notin DOMAIN inflight'
                  \/ /\ stats_errors' = stats_errors + 1
                     /\ stats_hits' = stats_hits
                     /\ last'.id \notin DOMAIN inflight'
        /\ Resumed
            => /\ stats_hits' = stats_hits
               /\ \/ /\ stats_errors' = stats_errors + 1
                     /\ stats_recorded' = stats_recorded
                  \/ /\ stats_recorded' = stats_recorded + 1
                     /\ stats_errors' = stats_errors
        /\ (~Started /\ ~Resumed)
            => UNCHANGED <<stats_hits, stats_misses, stats_recorded, stats_errors>> ]_vars

\* Two calls have returned, one through the recording and one through the
\* failure of forward_request: each counted once in stats_total and in one of
\* stats_recorded and stats_errors.
C16_Witness ==
    /\ stats_total = 2
    /\ stats_recorded = 1
    /\ stats_errors = 1
    /\ stats_hits = 0
    /\ inflight = << >>
    /\ last.op = "handle"
    /\ last.outcome \in {"timeout", "unreachable"}
    /\ ~IsNone(last.upstream)

\* ------------------------------------------------- C17: a malformed cassette

\* C17: a call of handle whose cassette file exists but does not hold a valid
\* cassette treats it as a miss: in REPLAY mode it returns 404 with the error
\* 'no matching cassette found' and increments stats_misses by 1; in SPY mode
\* it increments stats_misses by 1 and is suspended in forward_request, to
\* record again; in no mode does the error of the parse leave handle.
C17_MalformedIsMiss ==
    [][ (/\ CalledResolvable
         /\ mode \in {"replay", "spy"}
         /\ StepFile \in DOMAIN files
         /\ ~IsCassetteText(files[StepFile]))
            => /\ last'.outcome # "raised"
               /\ stats_misses' = stats_misses + 1
               /\ mode = "replay" => ReturnedError(404, "no matching cassette found")
               /\ mode = "spy" => last'.id \in DOMAIN inflight' ]_vars

\* ---------------------------------------- C18: two recordings of one filename

\* C18: when two calls suspended in forward_request record to the same
\* filename, each returns its own upstream's status, headers and body; the
\* step that resumes a call with its upstream's answer leaves in the file the
\* whole serialization of that call's cassette, so that after both have
\* returned the file is the cassette of the call that wrote last; and every
\* cassette file written by recordings only is, at every moment, the whole
\* serialization of the cassette of one recording, never a mixture.
C18_LastWriterWins ==
    [][ /\ Answered
            => LET up == The(StepUpstream.response)
                   locals == inflight[last'.id]
               IN  /\ The(last'.result).status = up.status_code
                   /\ The(last'.result).headers = LowerKeys(up.headers)
                   /\ The(last'.result).body = up.content
                   /\ StepFile \in DOMAIN files'
                   /\ files'[StepFile] = model_dump_json(BuildCassette(locals, up))
                   /\ origin'[StepFile].request = locals.request
                   /\ origin'[StepFile].response = up
        /\ \A f \in DOMAIN origin' :
               /\ f \in DOMAIN files'
               /\ files'[f] = model_dump_json(
                      BuildCassette(The(LocalsOf[origin'[f].request]), origin'[f].response)) ]_vars

\* Two calls for one key were suspended in forward_request together; the
\* second has recorded first, the first has recorded UpJson last, and the one
\* file holds the first call's cassette.
C18_Witness ==
    /\ last.op = "handle"
    /\ last.id = 1
    /\ last.outcome = "recorded"
    /\ The(last.upstream).response = Some(UpJson)
    /\ stats_total = 2
    /\ stats_recorded = 2
    /\ stats_hits = 0
    /\ inflight = << >>
    /\ Cardinality(DOMAIN files) = 1
    /\ \A f \in DOMAIN files : files[f] = model_dump_json(
               BuildCassette(The(LocalsOf[The(last.request)]), UpJson))

\* ------------------------------------------ C19: counters under concurrency

\* C19: with calls of handle interleaved at the await of forward_request, no
\* increment is lost: at every moment stats_total is the number of calls
\* started and stats_hits, stats_misses, stats_recorded and stats_errors are
\* the numbers of calls that took the hit, the miss, the recorded and the
\* error path so far; in particular once all calls have returned.
C19_NoLostIncrement ==
    /\ stats_total = taken.calls
    /\ stats_hits = taken.hit
    /\ stats_misses = taken.miss
    /\ stats_recorded = taken.recorded
    /\ stats_errors = taken.error
    /\ stats_total >= stats_hits + stats_recorded + stats_errors
                      + Cardinality(DOMAIN inflight)

\* Two calls missed in SPY mode and were suspended in forward_request
\* together; one has recorded, the other has failed, and both have returned.
C19_Witness ==
    /\ taken = [ calls |-> 2, hit |-> 0, miss |-> 2, recorded |-> 1, error |-> 1,
                 replay_miss |-> 0, raised |-> 0 ]
    /\ stats_total = 2
    /\ stats_misses = 2
    /\ stats_recorded = 1
    /\ stats_errors = 1
    /\ inflight = << >>
    /\ last.id = 1

\* ------------------------------------------- C20: upstream statuses recorded

\* C20: an answer of the upstream is recorded whatever its status. When the
\* upstream answers a call suspended in forward_request (dispatched in RECORD
\* mode, or in SPY mode after a miss) with a status of 400 or more, the
\* cassette in the file of the request's key has that status, stats_recorded
\* is incremented by 1, stats_errors is unchanged and the call returns that
\* status; and a later REPLAY of a request of that key, the file being as
\* recorded, is a hit that returns that status.
C20_AnyStatusRecorded ==
    [][ /\ (Answered /\ The(StepUpstream.response).status_code >= 400)
            => LET up == The(StepUpstream.response)
               IN  /\ StepFile \in DOMAIN files'
                   /\ IsCassetteText(files'[StepFile])
                   /\ CassetteIn(files'[StepFile]).response.status_code = up.status_code
                   /\ stats_recorded' = stats_recorded + 1
                   /\ stats_errors' = stats_errors
                   /\ last'.outcome = "recorded"
                   /\ The(last'.result).status = up.status_code
        /\ (/\ CalledResolvable
            /\ mode = "replay"
            /\ StepFile \in DOMAIN origin
            /\ origin[StepFile].response.status_code >= 400)
            => /\ last'.outcome = "hit"
               /\ The(last'.result).status = origin[StepFile].response.status_code
               /\ stats_hits' = stats_hits + 1
               /\ stats_errors' = stats_errors ]_vars

\* The upstream's 500 was recorded, without an error counted, and a call in
\* REPLAY mode has returned the 500 from the cassette.
C20_Witness ==
    /\ last.op = "handle"
    /\ last.mode = "replay"
    /\ last.outcome = "hit"
    /\ The(last.result).status = UpTextError.status_code
    /\ LastFile \in DOMAIN origin
    /\ origin[LastFile].response = UpTextError
    /\ stats_recorded = 1
    /\ stats_hits = 1
    /\ stats_errors = 0

\* ------------------------------------------------- C21: writing the mode

\* This step is a call of the admin API.
AdminCalled == last'.n = last.n + 1

\* C21: a PUT of the mode whose value is none of record, replay, spy (or
\* whose mode field is missing) is answered 422 and leaves the handler's
\* mode unchanged; a PUT of a valid mode is answered 200 with that mode and
\* makes it the handler's mode; a read of the mode is answered 200 with the
\* handler's mode and leaves it, so that a read following a valid write
\* returns the value written.
C21_SetMode ==
    [][ AdminCalled
            => /\ (last'.op = "put_mode"
                   /\ (IsNone(last'.input)
                       \/ The(last'.input) \notin {"record", "replay", "spy"}))
                    => /\ last'.status = 422
                       /\ mode' = mode
               /\ (last'.op = "put_mode" /\ ~IsNone(last'.input)
                   /\ The(last'.input) \in {"record", "replay", "spy"})
                    => /\ last'.status = 200
                       /\ last'.body = last'.input
                       /\ mode' = The(last'.input)
               /\ last'.op = "get_mode"
                    => /\ last'.status = 200
                       /\ last'.body = Some(mode)
                       /\ mode' = mode
               /\ (last'.op = "get_mode" /\ last.op = "put_mode" /\ last.status = 200)
                    => last'.body = last.input ]_vars

\* After an earlier call, with the mode replay, the PUT of RECORD in upper
\* case has been answered 422 and the mode is still replay.
C21_Witness ==
    /\ last.op = "put_mode"
    /\ last.input = Some("RECORD")
    /\ last.status = 422
    /\ last.was = "replay"
    /\ mode = "replay"
    /\ last.n >= 2

\* ------------------------------------------- C22: the order of a body's keys

\* Requests a and b are alike and their bodies are the same JSON object, the
\* keys in any order.
SameJsonObject(a, b) == SameButBody(a, b) /\ DifferingFields(a, b) = {}

\* C22: two requests with content type application/json whose bodies are the
\* same JSON object, the keys in different orders, have equal matching keys,
\* so that a call of handle in REPLAY mode for one is a hit served from the
\* cassette recorded for the other; two requests whose JSON bodies differ in
\* a value have different matching keys, and a call in REPLAY mode for a
\* request that differs in a value from every recorded one is a miss.
C22_KeyOrder ==
    [][ CalledResolvable
            => /\ \A f \in DOMAIN origin :
                      LET recorded == origin[f].request
                      IN  /\ SameJsonObject(recorded, StepRequest)
                              => /\ The(LocalsOf[recorded]).matching_key
                                        = StepLocals.matching_key
                                 /\ f = StepFile
                                 /\ mode = "replay"
                                      => /\ last'.outcome = "hit"
                                         /\ The(last'.result).status
                                                = origin[f].response.status_code
                                         /\ The(last'.result).body
                                                = origin[f].response.content
                                         /\ stats_hits' = stats_hits + 1
                          /\ (SameButBody(recorded, StepRequest)
                              /\ DifferingFields(recorded, StepRequest) # {})
                              => /\ The(LocalsOf[recorded]).matching_key
                                        # StepLocals.matching_key
                                 /\ f # StepFile
               /\ (/\ mode = "replay"
                   /\ DOMAIN files = DOMAIN origin
                   /\ \A f \in DOMAIN origin :
                          /\ SameButBody(origin[f].request, StepRequest)
                          /\ DifferingFields(origin[f].request, StepRequest) # {})
                    => /\ ReturnedError(404, "no matching cassette found")
                       /\ stats_misses' = stats_misses + 1 ]_vars

\* ReqA was recorded, and the call in REPLAY mode for ReqAReordered, whose
\* body has the keys in the other order, has been served from its cassette.
C22_Witness ==
    /\ last.op = "handle"
    /\ last.mode = "replay"
    /\ last.outcome = "hit"
    /\ last.request = Some(ReqAReordered)
    /\ LastFile \in DOMAIN origin
    /\ origin[LastFile].request = ReqA
    /\ The(last.result).body = origin[LastFile].response.content
    /\ stats_hits = 1
    /\ stats_recorded = 1

\* ----------------------------------------- C23: the order of the parameters

\* How many parameters of the query string qs are the pair p.
CountPair(qs, p) == Cardinality({i \in DOMAIN FormPairs(qs) : FormPairs(qs)[i] = p})

\* The query strings qa and qb hold the same parameters, in any order.
SameParameters(qa, qb) ==
    /\ Len(qa) = Len(qb)
    /\ \A p \in QueryPairs : CountPair(qa, p) = CountPair(qb, p)

\* C23: two requests that differ only in the order of their query
\* parameters, across names and among the values of one name, have equal
\* matching keys; and the query field of a key is null exactly when every
\* parameter of the request has a name listed in route_ignore.query_params.
C23_QueryOrder ==
    last.op = "key"
        => /\ \A qs \in QueryStrings :
                  SameParameters(qs, last.request.query_string)
                      => KeyOf(QueryRequest(qs), last.route_ignore) = last.key
           /\ IsNone(last.key.query)
                  <=> \A i \in DOMAIN FormPairs(last.request.query_string) :
                          /\ ~IsNone(last.route_ignore)
                          /\ FormPairs(last.request.query_string)[i][1]
                                 \in SeqToSet(The(last.route_ignore).query_params)

\* The key of GET /a/l?b=2&a=1&a=0 was computed with no ignore rule: its
\* query field is a=0&a=1&b=2, as for every other order of these parameters.
C23_Witness ==
    /\ last.op = "key"
    /\ last.request.query_string = <<"b", "=", "2", "&", "a", "=", "1", "&", "a", "=", "0">>
    /\ last.route_ignore = None
    /\ last.key.query = Some(<<"a", "=", "0", "&", "a", "=", "1", "&", "b", "=", "2">>)

\* --------------------------------------------- C24: the longest prefix wins

\* The entries of the map last.targets whose prefix P matches last.path:
\* the path is P, or starts with P followed by '/', or P is '/'.
MatchingEntries ==
    {i \in DOMAIN last.targets :
        LET P == last.targets[i][1]
        IN  \/ last.path = P
            \/ /\ Len(last.path) > Len(P)
               /\ SubSeq(last.path, 1, Len(P) + 1) = P \o <<"/">>
            \/ P = <<"/">>}

\* C24: _resolve_target returns None exactly when no prefix of the map
\* matches the path; otherwise it returns the base URL of the longest
\* matching prefix P, with the path after P as remaining path (the whole
\* path when P is '/'), '/' when that is empty.
C24_LongestPrefix ==
    last.op = "resolve"
        => /\ IsNone(last.result) <=> MatchingEntries = {}
           /\ \A i \in MatchingEntries :
                  (\A j \in MatchingEntries : Len(last.targets[j][1]) <= Len(last.targets[i][1]))
                      => LET P == last.targets[i][1]
                             rest == IF P = <<"/">> THEN last.path
                                     ELSE SubSeq(last.path, Len(P) + 1, Len(last.path))
                         IN  /\ The(last.result).target_url = last.targets[i][2]
                             /\ The(last.result).domain = last.targets[i][2].host
                             /\ The(last.result).remaining
                                    = IF rest = <<>> THEN <<"/">> ELSE rest

\* /a/l/x was resolved on a map that lists '/' first, then /a, then /a/l:
\* the target is the one of /a/l and the remaining path is /x.
C24_Witness ==
    /\ last.op = "resolve"
    /\ last.path = <<"/", "a", "/", "l", "/", "x">>
    /\ Len(last.targets) = 3
    /\ last.targets[1][1] = <<"/">>
    /\ last.targets[2][1] = <<"/", "a">>
    /\ last.targets[3][1] = <<"/", "a", "/", "l">>
    /\ last.result = Some([ target_url |-> UrlOf(<<"/", "a", "/", "l">>), domain |-> "u",
                            remaining |-> <<"/", "x">> ])

\* ------------------------------------ C25: nothing is written before the answer

\* C25: a cassette is written only when the upstream's response is in hand.
\* The step that suspends a call in forward_request leaves the cassette
\* files, the directories, the route configs and stats_recorded alone; so
\* does the step that ends a suspended call by a cancellation or by a failure
\* of forward_request; and no step of a call of handle changes any of them
\* but the one that resumes a call with the upstream's response.
C25_WrittenAfterResponse ==
    [][ /\ (Called /\ last'.id \in DOMAIN inflight')
            => UNCHANGED <<files, dirs, routes, stats_recorded>>
        /\ Failed
            => /\ UNCHANGED <<files, dirs, routes, stats_recorded>>
               /\ StepUpstream.kind = "cancelled" => IsNone(last'.result)
        /\ (\/ files' # files
            \/ dirs' # dirs
            \/ routes' # routes
            \/ stats_recorded' # stats_recorded)
            => Answered ]_vars

\* The one call, suspended in forward_request, was cancelled: nothing is in
\* the store and nothing was counted as recorded.
C25_Witness ==
    /\ last.op = "handle"
    /\ last.outcome = "cancelled"
    /\ last.upstream = Some([kind |-> "cancelled", response |-> None])
    /\ stats_total = 1
    /\ stats_recorded = 0
    /\ inflight = << >>
    /\ files = << >>
    /\ dirs = {}
    /\ routes = << >>

\* ----------------------------------- C26: only a delete removes a cassette

\* C26: no step of a call of handle, in any mode and whatever its outcome
\* (the call of auto_generate after a recording included), removes a cassette
\* file: over such a step the set of cassette files only grows.  A step that
\* removes a cassette file is a delete of the admin API, which is no step of
\* a call: it leaves the counters and the suspended calls alone.
C26_OnlyDeleteRemoves ==
    [][ /\ (Called \/ Resumed)
            => \A f \in DOMAIN files : f \in DOMAIN files'
        /\ (\E f \in DOMAIN files : f \notin DOMAIN files')
            => UNCHANGED <<stats, inflight, last, mode, routes>> ]_vars

\* A cassette was recorded, the forward of the second call has failed, and
\* the cassette file is still there.
C26_Witness ==
    /\ last.op = "handle"
    /\ last.id = 2
    /\ last.outcome \in {"timeout", "unreachable"}
    /\ stats_recorded = 1
    /\ stats_errors = 1
    /\ LastFile \in DOMAIN files
    /\ LastFile \in DOMAIN origin

\* ------------------------------------------------ C27: recording over a key

\* C27: recording a request whose domain and matching key already have a
\* cassette overwrites it silently: the step that resumes the call with the
\* upstream's response adds no file, the file of the key then holds the
\* response of this recording, lookup returns it, and stats_recorded is
\* incremented by 1, as for the first recording; a later call in REPLAY mode
\* for the key returns the status and body of the later recording.
C27_Overwrite ==
    [][ /\ (Answered /\ StepFile \in DOMAIN files)
            => LET up == The(StepUpstream.response)
                   found == lookup(files', dirs', StepLocals.domain,
                                   StepLocals.matching_key)
               IN  /\ DOMAIN files' = DOMAIN files
                   /\ IsCassetteText(files'[StepFile])
                   /\ CassetteIn(files'[StepFile]).response = _build_recorded_response(up)
                   /\ ~found.raised
                   /\ ~IsNone(found.value)
                   /\ The(found.value).response = _build_recorded_response(up)
                   /\ origin'[StepFile].response = up
                   /\ stats_recorded' = stats_recorded + 1
        /\ ReplayOfRecorded
            => /\ last'.outcome = "hit"
               /\ The(last'.result).status = origin[StepFile].response.status_code
               /\ The(last'.result).body = origin[StepFile].response.content ]_vars

\* A request was recorded twice, the second time with UpBinary; the call in
\* REPLAY mode that followed has returned UpBinary, from the one file.
C27_Witness ==
    /\ last.op = "handle"
    /\ last.id = 3
    /\ last.mode = "replay"
    /\ last.outcome = "hit"
    /\ The(last.result).status = UpBinary.status_code
    /\ The(last.result).body = UpBinary.content
    /\ stats_recorded = 2
    /\ stats_hits = 1
    /\ stats_misses = 0
    /\ Cardinality(DOMAIN files) = 1

\* -------------------------------------- C28: one cassette per matching key

C29_LateRuleMisses ==
    [][ (/\ CalledResolvable
         /\ mode = "replay"
         /\ \E f \in DOMAIN origin : origin[f].request = StepRequest
         /\ \A f \in DOMAIN origin : origin[f].ignore = EmptyIgnore
         /\ \E field \in SeqToSet(IgnoreOnDisk(routes, StepLocals).body_fields) :
                field \in Keys(BodyObject(StepRequest)))
            => /\ ReturnedError(404, "no matching cassette found")
               /\ stats_misses' = stats_misses + 1
               /\ stats_hits' = stats_hits ]_vars

\* ---------------------------------------- C30: the slug of a route config

\* C30: the route-config file of a route is named <METHOD>_<slug>.yaml in
\* the directory of the domain, where slug is _path_to_slug(path), the slug
\* of the cassette filename: '/' stripped at both ends, '/' replaced by '_',
\* every character outside [A-Za-z0-9_-] replaced by '_', 'root' when empty.
C30_SameSlug ==
    last.op = "slug"
        => /\ last.config_path[1] = "t"
           /\ last.config_path[2] = Upper(last.method)
           /\ last.config_path[3] = last.cassette_slug

\* ------------------------------------- C31: the casing of an ignored header

\* The headers that remain when both ignore sources are compared in lower case.
RemainingHeaders(headers, ignore_headers, route_ignore) ==
    LET lowered == {Lower(h) : h \in ignore_headers \cup SeqToSet(route_ignore)}
    IN  SelectSeq(headers, LAMBDA p : Lower(p[1]) \notin lowered)

\* C31: a header is left out of the matching key whenever its lowercased name
\* equals the lowercased name of an entry of always_ignore_headers or of
\* route_ignore.headers, whatever the casing of the configured entry, and the
\* headers field is null exactly when no header remains.
C31_CaseInsensitive ==
    last.op = "headers"
        => LET remaining == RemainingHeaders(last.headers, last.ignore_headers,
                                             last.route_ignore)
           IN  last.result = IF remaining = <<>> THEN None
                             ELSE Some(JoinForm(SortPairs(LowerKeys(remaining))))

\* ------------------------------------------- C32: the bytes a replay returns

\* C32: _decode_body yields the base64-decoded bytes when body_encoding is
\* base64 (the bytes whose base64 text is the body), the UTF-8 encoding of the
\* string otherwise, and empty bytes for a null body; hence the bytes replayed
\* for an upstream response recorded with a binary content type are the bytes
\* the upstream sent.
C32_RecordedBytes ==
    /\ last.op \in {"decode", "replayed"}
          => LET response == last.response
             IN  /\ IsNone(response.body) => last.bytes = <<>>
                 /\ (~IsNone(response.body) /\ response.body_encoding = "base64")
                        => /\ B64Encode(last.bytes) = The(response.body)
                           /\ Len(last.bytes) = Len(The(response.body))
                 /\ (~IsNone(response.body) /\ response.body_encoding # "base64")
                        => /\ Utf8Decode(last.bytes) = The(response.body)
                           /\ ValidUtf8(last.bytes)
    /\ (/\ last.op = "replayed"
        /\ ~_is_text_content(DictGet(The(last.upstream).headers, "content-type")))
          => /\ last.response.body_encoding = "base64"
             /\ last.bytes = The(last.upstream).content

\* An upstream's binary body that is not UTF-8 went through a cassette and
\* came back byte for byte.
C32_Witness ==
    /\ last.op = "replayed"
    /\ The(last.upstream).headers = <<<<"content-type", "application/octet-stream">>>>
    /\ The(last.upstream).content = <<"a", "xFF", "b">>
    /\ last.response.body_encoding = "base64"
    /\ last.bytes = <<"a", "xFF", "b">>

\* ------------------------------------------------ the hooks of the VCRAddon

\* This step is request() of a new flow, which gets the id stats_total'.
AddonRequested == stats_total' = stats_total + 1

\* This step is response() of the flow id, which request() had seen.
AddonResponded(id) == id \in DOMAIN inflight /\ id \notin DOMAIN inflight'

\* This step is response() of a flow request() never saw.
UnseenResponded == last' # last /\ last'.op = "response" /\ last'.answered = "unseen"

\* The cassette file of the flow's request.
FlowFile(req) ==
    FilePath(req.host, _cassette_filename(FlowMetadata(req).vcr_matching_key))

\* ------------------------------------------------- C33: the SPY miss in two phases

\* C33: with the addon in SPY mode, request() on a flow with no cassette
\* increments stats_misses, leaves flow.response unset and adds flow.id to
\* _pending_record; the following response() of that flow saves the cassette
\* of the upstream's answer, generates the route config, increments
\* stats_recorded by 1 and removes flow.id from _pending_record; a later
\* request() of the same key is answered from the cassette, stats_hits +1.
C33_TwoPhases ==
    [][ /\ (AddonRequested /\ mode = "spy")
            => LET req == The(last'.request)
                   id == stats_total'
               IN  /\ FlowFile(req) \notin DOMAIN files
                        => /\ stats_misses' = stats_misses + 1
                           /\ stats_hits' = stats_hits
                           /\ IsNone(inflight'[id].response)
                           /\ id \in _pending_record'
                           /\ UNCHANGED <<files, dirs, routes, stats_recorded>>
                   /\ FlowFile(req) \in DOMAIN files
                        => LET cassette == CassetteIn(files[FlowFile(req)])
                           IN  /\ stats_hits' = stats_hits + 1
                               /\ stats_misses' = stats_misses
                               /\ The(inflight'[id].response).status_code =
                                      cassette.response.status_code
                               /\ The(inflight'[id].response).content =
                                      forward_decode_body(cassette.response)
                               /\ id \notin _pending_record'
        /\ \A id \in DOMAIN inflight :
              (/\ AddonResponded(id)
               /\ mode = "spy"
               /\ inflight[id].answered = "spy_miss")
                  => LET req == inflight[id].request
                         md == FlowMetadata(req)
                         upstream == The(last'.response)
                     IN  /\ FlowFile(req) \in DOMAIN files'
                         /\ CassetteIn(files'[FlowFile(req)]).response =
                                build_recorded_response_from_raw(upstream.status_code,
                                    upstream.headers, upstream.content)
                         /\ CassetteIn(files'[FlowFile(req)]).request = md.vcr_recorded_req
                         /\ _config_path(md.vcr_domain, md.vcr_recorded_req.method,
                                         md.vcr_recorded_req.path) \in DOMAIN routes'
                         /\ stats_recorded' = stats_recorded + 1
                         /\ id \notin _pending_record' ]_vars

\* In SPY mode the first flow missed and its response was recorded; the
\* second flow, of the same key, was answered from that cassette with the
\* binary body of the upstream, and no flow is pending.
C33_Witness ==
    /\ last.op = "request"
    /\ last.mode = "spy"
    /\ last.outcome = "hit"
    /\ last.request = Some(FlowAVariant)
    /\ The(last.response).content = UpBinary.content
    /\ stats_total = 2
    /\ stats_misses = 1
    /\ stats_recorded = 1
    /\ stats_hits = 1
    /\ _pending_record = {}

\* ------------------------------------------------- C34: no pending flow leaks

\* C34: once response(flow) has returned, flow.id is not in _pending_record,
\* for every sequence of mode changes between its request() and its
\* response(); so when no flow is between request() and response(),
\* _pending_record is empty.
C34_NoLeak ==
    [][ /\ \A id \in DOMAIN inflight : AddonResponded(id) => id \notin _pending_record'
        /\ DOMAIN inflight' = {} => _pending_record' = {} ]_vars

\* ------------------------------------- C35: a mode change and the flows let through

\* C35: a flow whose request() was let through for recording (RECORD mode, or
\* SPY miss) is recorded when its response() runs, and stats_recorded is
\* incremented, even if the mode was switched in between.
C35_RecordedAfterSwitch ==
    [][ \A id \in DOMAIN inflight :
           (AddonResponded(id) /\ inflight[id].answered \in {"let_through", "spy_miss"})
               => /\ stats_recorded' = stats_recorded + 1
                  /\ FlowFile(inflight[id].request) \in DOMAIN files'
                  /\ last'.outcome = "recorded" ]_vars

\* ------------------------------------- C36: the addon's own answers are not recorded

\* C36: for a flow that request() answered from a cassette or with the 404 of
\* a REPLAY miss, response() saves no cassette and leaves stats_recorded
\* unchanged, whatever the mode is when it runs; likewise response() on a
\* flow that never went through request().
C36_NoReRecord ==
    [][ /\ \A id \in DOMAIN inflight :
              (AddonResponded(id) /\ inflight[id].answered \in {"hit", "miss"})
                  => UNCHANGED <<files, dirs, routes, stats_recorded>>
        /\ UnseenResponded => UNCHANGED <<files, dirs, routes, stats_recorded>> ]_vars

\* A flow answered from a cassette had its response() run after the mode was
\* switched to RECORD: the one recording of before is all there is.
C36_Witness ==
    /\ last.op = "response"
    /\ last.answered = "hit"
    /\ last.mode = "record"
    /\ last.outcome = "no_metadata"
    /\ stats_hits = 1
    /\ stats_recorded = 1

\* ------------------------------------- C37: a lookup that races with a delete

\* C37: a lookup that runs concurrently with a delete or delete_all of the
\* same cassette returns either the cassette or null: it sees the store
\* before or after the delete and never fails with an error caused by the
\* file vanishing between the existence check and the read.
C37_BeforeOrAfter ==
    last.op \in {"lookup", "lookup_error"}
        => /\ last.op = "lookup"
           /\ IsNone(last.found) \/ The(last.found) \in StoreCassettes

\* ------------------------------------- C38: concurrent SPY requests of one key

\* The cassette file of the key of ReqA and ReqAVariant.
SpyFile ==
    FilePath(The(LocalsOf[ReqA]).domain,
             _cassette_filename(The(LocalsOf[ReqA]).matching_key))

\* C38: for any interleaving of concurrent SPY requests of one matching key on
\* a store without that cassette, every upstream call succeeding, each request
\* returns its own upstream response or a recorded one; once all have
\* finished exactly one cassette file exists for the key, stats_hits +
\* stats_misses is the number of requests, stats_recorded equals
\* stats_misses, and every later request of that key is a hit.
C38_ConcurrentSpy ==
    [][ /\ (\E id \in DOMAIN inflight : id \notin DOMAIN inflight')
            => /\ last'.outcome = "recorded"
               /\ last'.result = Some(LiveResult(The(The(last'.upstream).response)))
        /\ stats_total' = stats_total + 1
            => /\ last'.outcome \in {"hit", "forward"}
               /\ last'.outcome = "hit"
                    => /\ SpyFile \in DOMAIN origin
                       /\ The(last'.result).status =
                              origin[SpyFile].response.status_code
                       /\ The(last'.result).body =
                              _decode_body(_build_recorded_response(origin[SpyFile].response))
        /\ (DOMAIN inflight' = {} /\ stats_total' > 0)
            => /\ DOMAIN files' = {SpyFile}
               /\ taken'.calls = stats_total'
               /\ stats_hits' + stats_misses' = stats_total'
               /\ stats_recorded' = stats_misses'
        /\ (DOMAIN inflight = {} /\ stats_total > 0 /\ stats_total' = stats_total + 1)
            => /\ last'.outcome = "hit"
               /\ stats_hits' = stats_hits + 1
               /\ UNCHANGED <<stats_misses, stats_recorded, files>> ]_vars

\* Two requests of the key missed together and both recorded, a third was
\* then answered from the one cassette file.
C38_Witness ==
    /\ stats_total = 3
    /\ stats_misses = 2
    /\ stats_recorded = 2
    /\ stats_hits = 1
    /\ DOMAIN inflight = {}
    /\ DOMAIN files = {SpyFile}
    /\ last.outcome = "hit"
    /\ last.id = 3

\* ------------------------------------------------ C39: the counters add up

\* C39: in every reachable state, in-flight requests included, stats_hits +
\* stats_recorded + stats_errors <= stats_total; and whenever no request is
\* in flight and no exception has propagated out of handle, stats_total =
\* stats_hits + stats_recorded + stats_errors + (number of REPLAY-mode
\* misses), hence stats_total <= stats_hits + stats_recorded + stats_errors +
\* stats_misses.
C39_Accounting ==
    /\ stats_hits + stats_recorded + stats_errors <= stats_total
    /\ (DOMAIN inflight = {} /\ taken.raised = 0)
          => /\ stats_total = stats_hits + stats_recorded + stats_errors
                                  + taken.replay_miss
             /\ taken.replay_miss <= stats_misses
             /\ stats_total <= stats_hits + stats_recorded + stats_errors + stats_misses

\* A SPY miss was recorded and a REPLAY miss was answered 404, nothing is in
\* flight and nothing has raised: the total is the sum, and stats_misses
\* counts the SPY miss as well.
C39_Witness ==
    /\ DOMAIN inflight = {}
    /\ taken.raised = 0
    /\ taken.replay_miss = 1
    /\ stats_total = 2
    /\ stats_misses = 2
    /\ stats_recorded = 1
    /\ stats_hits = 0
    /\ stats_errors = 0

====
